---- MODULE Spec2Model ----
(***************************************************************************)
(* A model of the HTML-6X runtimes of this repository:                     *)
(*   - the Store of the h6x runtime (raw data, computed bindings, the      *)
(*     restricted expression evaluator), src/unnamed/part_001;             *)
(*   - the ElectronShell of the atomic runtime (event handlers, submit     *)
(*     protocol, signal bus, bonds), src/h6x-atomic-runtime.js.            *)
(* JavaScript values are tagged records; objects and arrays live in a heap *)
(* of cells addressed by references, so that aliasing and cloning are      *)
(* distinguishable.                                                        *)
(***************************************************************************)
EXTENDS Integers, Sequences, FiniteSets, TLC

VARIABLES
  data,        \* Store.data: raw name -> value (a scalar or a heap reference)
  computed,    \* Store.computed: name -> expression (token sequence)
  schemas,     \* Store.schemas: schema name -> schema
  state,       \* Store.state: state cell name -> value
  heap,        \* the object heap: reference id -> array or object cell
  ret,         \* the value the last Store call returned to its caller
  call,        \* the last operation and its arguments
  muts,        \* number of mutations callers have applied to values they were returned
  registered,  \* history: name -> payload (tree) of the last successful raw load
  persists,    \* names whose persistToIndexedDB call has not settled
  doc,         \* the <atom> and <molecule> nodes of the document
  storage,     \* localStorage: key -> stored JSON text
  booted,      \* AtomicKernel.boot() has run
  atoms,       \* the parsed atoms, in document order (protons carry data, electrons energy)
  elements,    \* PeriodicTable.elements: name -> index of the registered atom
  bonds,       \* BondingManager.bonds
  domListeners,  \* listeners added to the rendered containers
  winListeners,  \* listeners added to window (the signal bus)
  loads,       \* remote data loads whose fetch has not settled
  fetches,     \* submit requests whose fetch has not settled
  timers,      \* pending setTimeout callbacks, in firing order
  location,    \* window.location.href
  trace,       \* what the last callback did, in order
  page,        \* the <h6x-data>, <h6x-state> and <h6x-app> nodes of the document
  mounts,      \* what H6XRuntime.mount came to for each <h6x-app>, in document order
  runtime      \* H6XRuntime.boot: "loading" before it, then "ready" or "threw"

storeVars == <<data, computed, schemas, state, heap, ret, call, muts, registered, persists>>
shellVars == <<doc, storage, booted, atoms, elements, bonds, domListeners, winListeners,
               loads, fetches, timers, location, trace>>
runtimeVars == <<page, mounts, runtime>>
vars == <<storeVars, shellVars, runtimeVars>>

(***************************************************************************)
(* Values                                                                  *)
(***************************************************************************)
Null == [tag |-> "null"]
Undef == [tag |-> "undef"]
Threw == [tag |-> "throw"]
Bool(b) == [tag |-> "bool", b |-> b]
Num(n) == [tag |-> "num", n |-> n]
Str(s) == [tag |-> "str", s |-> s]
Ref(r) == [tag |-> "ref", r |-> r]
TArr(items) == [tag |-> "arr", items |-> items]
TObj(fields) == [tag |-> "obj", fields |-> fields]
InvalidJSON == [tag |-> "invalid"]

IsRef(v) == v.tag = "ref"

\* JavaScript ToBoolean, as applied by the ! operator
Falsy(v) ==
  \/ v.tag \in {"null", "undef"}
  \/ (v.tag = "bool" /\ ~v.b)
  \/ (v.tag = "num" /\ v.n = 0)
  \/ (v.tag = "str" /\ v.s = "")

Min(S) == CHOOSE x \in S : \A y \in S : x <= y

\* getAttribute() of an attribute the node does not carry (null)
Absent == "<absent>"
Truthy(a) == a \notin {Absent, ""}

\* obj[k] = v
Put(f, k, v) == [x \in DOMAIN f \cup {k} |-> IF x = k THEN v ELSE f[x]]

(***************************************************************************)
(* The heap: JSON.parse and structuredClone allocate cells, reads follow   *)
(* references.                                                             *)
(***************************************************************************)
EmptyHeap == << >>
EmptyFields == [k \in {} |-> Null]

\* the smallest reference id not in use
FreshId(h) ==
  CHOOSE i \in 1..(Cardinality(DOMAIN h) + 1) :
    i \notin DOMAIN h /\ \A j \in 1..(i - 1) : j \in DOMAIN h

RECURSIVE Alloc(_, _)
RECURSIVE AllocSeq(_, _, _)
RECURSIVE AllocFields(_, _, _, _)

\* allocate the items of a sequence of trees left to right
AllocSeq(h, ts, acc) ==
  IF ts = << >> THEN [h |-> h, vs |-> acc]
  ELSE LET r == Alloc(h, Head(ts))
       IN AllocSeq(r.h, Tail(ts), Append(acc, r.v))

\* allocate the values of the fields ks of an object tree
AllocFields(h, f, ks, acc) ==
  IF ks = {} THEN [h |-> h, fs |-> acc]
  ELSE LET k == CHOOSE x \in ks : TRUE
           r == Alloc(h, f[k])
       IN AllocFields(r.h, f, ks \ {k}, acc @@ (k :> r.v))

\* build the object graph of a JSON tree in the heap; scalars are immediate
Alloc(h, t) ==
  IF t.tag = "arr" THEN
    LET r == AllocSeq(h, t.items, << >>)
        id == FreshId(r.h)
    IN [h |-> r.h @@ (id :> [tag |-> "arr", items |-> r.vs]), v |-> Ref(id)]
  ELSE IF t.tag = "obj" THEN
    LET r == AllocFields(h, t.fields, DOMAIN t.fields, EmptyFields)
        id == FreshId(r.h)
    IN [h |-> r.h @@ (id :> [tag |-> "obj", fields |-> r.fs]), v |-> Ref(id)]
  ELSE [h |-> h, v |-> t]

\* the JSON tree a value denotes (deep equality is equality of trees)
RECURSIVE Deep(_, _)
Deep(h, v) ==
  IF v.tag = "ref" THEN
    LET c == h[v.r]
    IN IF c.tag = "arr"
       THEN TArr([i \in 1..Len(c.items) |-> Deep(h, c.items[i])])
       ELSE TObj([k \in DOMAIN c.fields |-> Deep(h, c.fields[k])])
  ELSE v

\* the references held directly by a value or by a cell
RefsOf(v) == IF v.tag = "ref" THEN {v.r} ELSE {}
CellRefs(c) ==
  IF c.tag = "arr" THEN UNION {RefsOf(c.items[i]) : i \in 1..Len(c.items)}
  ELSE UNION {RefsOf(c.fields[k]) : k \in DOMAIN c.fields}

\* the cells reachable from a set of references
RECURSIVE Reach(_, _)
Reach(h, rs) ==
  LET next == rs \cup UNION {CellRefs(h[r]) : r \in rs}
  IN IF next = rs THEN rs ELSE Reach(h, next)

\* JSON.parse of a node's text: a syntax error throws, otherwise a fresh graph
JSONParse(h, text) ==
  IF text = InvalidJSON THEN [ok |-> FALSE, h |-> h, v |-> Undef]
  ELSE LET r == Alloc(h, text) IN [ok |-> TRUE, h |-> r.h, v |-> r.v]

\* a clone that hands out the original reference
StructuredClone_Alias(h, v) == [h |-> h, v |-> v]

\* structuredClone(value): a deep copy sharing no cell with the original
StructuredClone(h, v) == Alloc(h, Deep(h, v))

\* Reference ids carry no meaning, so the heap is kept in a canonical
\* numbering: the cells reachable from the roots, in depth-first order;
\* cells no root refers to are dropped (garbage collection).
KeySeq == <<"active", "done">>
Children(c) ==
  IF c.tag = "arr" THEN c.items
  ELSE LET present(k) == k \in DOMAIN c.fields
           ks == SelectSeq(KeySeq, present)
       IN [i \in 1..Len(ks) |-> c.fields[ks[i]]]

RECURSIVE VisitOrder(_, _, _)
VisitOrder(h, vs, acc) ==
  IF vs = << >> THEN acc
  ELSE LET v == Head(vs)
       IN IF ~IsRef(v) \/ (\E i \in 1..Len(acc) : acc[i] = v.r)
          THEN VisitOrder(h, Tail(vs), acc)
          ELSE VisitOrder(h, Children(h[v.r]) \o Tail(vs), Append(acc, v.r))

Renamed(order, v) ==
  IF IsRef(v) THEN Ref(CHOOSE i \in 1..Len(order) : order[i] = v.r) ELSE v

RenamedCell(order, c) ==
  IF c.tag = "arr"
  THEN [tag |-> "arr", items |-> [i \in 1..Len(c.items) |-> Renamed(order, c.items[i])]]
  ELSE [tag |-> "obj", fields |-> [k \in DOMAIN c.fields |-> Renamed(order, c.fields[k])]]

CanonHeap(h, order) == [i \in 1..Len(order) |-> RenamedCell(order, h[order[i]])]

(***************************************************************************)
(* Expressions.  An expression string is modelled by its tokens: maximal   *)
(* runs of word characters (\w+) and single non-word characters.           *)
(***************************************************************************)
Punct == {".", "(", ")", "=", " ", "-", "!"}
IsWord(t) == t \notin Punct

\* the words of the model that begin with the characters "count"
CountPrefixed == {"count", "counter"}

FilterExpr(c, k, lit) == <<c, ".", "filter", "(", k, "=", lit, ")">>
CountExpr(c) == <<c, ".", "count">>

NoMatch == [matched |-> FALSE]

\* expr.match(/(\w+)\.filter\((\w+)=(\w+)\)/): the leftmost occurrence
FilterMatchAt(e, i) ==
  /\ i + 7 <= Len(e)
  /\ IsWord(e[i]) /\ e[i + 1] = "." /\ e[i + 2] = "filter" /\ e[i + 3] = "("
  /\ IsWord(e[i + 4]) /\ e[i + 5] = "=" /\ IsWord(e[i + 6]) /\ e[i + 7] = ")"

FilterMatch(e) ==
  LET S == {i \in 1..Len(e) : FilterMatchAt(e, i)}
  IN IF S = {} THEN NoMatch
     ELSE LET i == Min(S)
          IN [matched |-> TRUE, dataName |-> e[i], key |-> e[i + 4], value |-> e[i + 6]]

\* expr.match(/(\w+)\.count/): the leftmost occurrence
CountMatchAt(e, i) ==
  /\ i + 2 <= Len(e)
  /\ IsWord(e[i]) /\ e[i + 1] = "." /\ e[i + 2] \in CountPrefixed

CountMatch(e) ==
  LET S == {i \in 1..Len(e) : CountMatchAt(e, i)}
  IN IF S = {} THEN NoMatch
     ELSE [matched |-> TRUE, dataName |-> e[Min(S)]]

(***************************************************************************)
(* Store (src/unnamed/part_001)                                            *)
(***************************************************************************)
\* obj[name] on a prototype-less map: undefined when the key is absent
Lookup(m, k) == IF k \in DOMAIN m THEN m[k] ELSE Undef

IsArray(h, v) == IsRef(v) /\ h[v.r].tag = "arr"

\* item[key] inside the filter callback: null[key] raises a TypeError
ItemField(h, item, key) ==
  IF item.tag \in {"null", "undef"} THEN Threw
  ELSE IF IsRef(item) /\ h[item.r].tag = "obj" THEN Lookup(h[item.r].fields, key)
  ELSE Undef

\* the callback of data.filter(...) in evalComputed
FilterKeeps(h, item, key, value) ==
  IF value = "true" THEN ItemField(h, item, key) = Bool(TRUE)
  ELSE IF value = "false" THEN ItemField(h, item, key) = Bool(FALSE)
  ELSE ItemField(h, item, key) = Str(value)

\* the filter branch of evalComputed
EvalFilter(d, h, m) ==
  LET v == Lookup(d, m.dataName)
  IN IF Falsy(v) THEN [h |-> h, v |-> Null]
     ELSE IF ~IsArray(h, v) THEN [h |-> h, v |-> Threw]
     ELSE LET items == h[v.r].items
          IN IF \E i \in 1..Len(items) : ItemField(h, items[i], m.key) = Threw
             THEN [h |-> h, v |-> Threw]
             ELSE LET keep(it) == FilterKeeps(h, it, m.key, m.value)
                      id == FreshId(h)
                  IN [h |-> h @@ (id :> [tag |-> "arr", items |-> SelectSeq(items, keep)]),
                      v |-> Ref(id)]

\* a count that tests the collection for truthiness only
EvalCount_Truthy(d, h, m) ==
  LET v == Lookup(d, m.dataName)
  IN IF Falsy(v) THEN Num(0)
     ELSE IF IsArray(h, v) THEN Num(Len(h[v.r].items)) ELSE Undef

\* the count branch of evalComputed
EvalCount(d, h, m) ==
  LET v == Lookup(d, m.dataName)
  IN IF IsArray(h, v) THEN Num(Len(h[v.r].items)) ELSE Num(0)

\* an evalComputed that tries the count form first
EvalComputed_CountFirst(d, h, expr) ==
  LET fm == FilterMatch(expr)
      cm == CountMatch(expr)
  IN IF cm.matched THEN [h |-> h, v |-> EvalCount(d, h, cm)]
     ELSE IF fm.matched THEN EvalFilter(d, h, fm)
     ELSE [h |-> h, v |-> Null]

\* Store.evalComputed(expr)
EvalComputed(d, h, expr) ==
  LET fm == FilterMatch(expr)
      cm == CountMatch(expr)
  IN IF fm.matched THEN EvalFilter(d, h, fm)
     ELSE IF cm.matched THEN [h |-> h, v |-> EvalCount(d, h, cm)]
     ELSE [h |-> h, v |-> Null]

\* typeof v === "object"
TypeofObject(h, v) == IsRef(v) \/ v.tag = "null"

\* Store.validate(data, schema): TRUE when it returns, FALSE when it throws
Validate(h, v, schema) ==
  /\ ~(schema.type = "array" /\ ~IsArray(h, v))
  /\ ~(schema.type = "object" /\ ~TypeofObject(h, v))

\* Store.get(name)
StoreGet(d, c, h, name) ==
  IF name \in DOMAIN c THEN EvalComputed(d, h, c[name])
  ELSE IF Falsy(Lookup(d, name)) THEN [h |-> h, v |-> Null]
  ELSE StructuredClone(h, d[name])

(***************************************************************************)
(* The documents and callers the Store is exercised with                   *)
(***************************************************************************)
MaxMutations == 1

Names == {"users", "tasks"}
NameSeq == <<"tasks", "users">>
Keys == {"active", "done"}

E1 == TObj(("active" :> Bool(TRUE)) @@ ("done" :> Bool(FALSE)))
E2 == TObj(("active" :> Bool(FALSE)) @@ ("done" :> Bool(TRUE)))
E3 == TObj(("active" :> Str("true")) @@ ("done" :> Str("no")))

ArrayPayloads == {TArr(<< >>), TArr(<<E1, E2, E3>>), TArr(<<Null, E1>>)}
Payloads == ArrayPayloads \cup {E1, Num(0)}
Texts == Payloads \cup {InvalidJSON}

\* the expressions the renderer evaluates directly
Exprs ==
  {FilterExpr(c, k, lit) : c \in Names, k \in Keys, lit \in {"true", "false"}}
    \cup {CountExpr(c) : c \in Names}

\* expressions in which a filter is followed by a count: of the filtered
\* sequence (which the count pattern does not match, a ")" standing before
\* ".count") and of another collection (which it matches)
BothForms ==
  { FilterExpr("users", "active", "true") \o <<".", "count">>,
    FilterExpr("users", "active", "true") \o <<" ", "tasks", ".", "count">> }

\* filters whose literal is a bare token
Tokens == {"no"}
TokenExprs == {FilterExpr(c, "done", tok) : c \in Names, tok \in Tokens}

\* expressions that are not of a grammar form: no form at all, a word that
\* only begins with "count", text before a count, a count after a filter
OtherExprs ==
  { <<"users">>,
    <<"users", ".", "counter">>,
    <<" ", "tasks", ".", "count">>,
    FilterExpr("users", "active", "true") \o <<".", "count">> }

\* the <h6x-data compute=...> nodes of the documents
ComputedNodes ==
  {[name |-> "activeUsers", compute |-> FilterExpr("users", "active", "true")]}

ReadNames == Names \cup {"activeUsers"}
\* the persist attribute of the <h6x-data> node of each name
PersistAttr(name) == IF name = "users" THEN "indexeddb" ELSE ""

\* the state after a Store call: d, h and the returned value r, renumbered
Commit(d, h, r) ==
  LET present(n) == n \in DOMAIN d
      ns == SelectSeq(NameSeq, present)
      roots == [i \in 1..Len(ns) |-> d[ns[i]]] \o <<r>>
      order == VisitOrder(h, roots, << >>)
  IN /\ data' = [n \in DOMAIN d |-> Renamed(order, d[n])]
     /\ heap' = CanonHeap(h, order)
     /\ ret' = Renamed(order, r)

\* a Store on a page without atoms
NoShell ==
  /\ doc = [atoms |-> << >>, molecules |-> << >>]
  /\ storage = [k \in {} |-> Null]
  /\ booted = FALSE
  /\ atoms = << >>
  /\ elements = [n \in {} |-> 0]
  /\ bonds = << >>
  /\ domListeners = << >>
  /\ winListeners = << >>
  /\ loads = {}
  /\ fetches = << >>
  /\ timers = << >>
  /\ location = ""
  /\ trace = << >>

\* a document without h6x nodes
NoPage ==
  /\ page = [dataNodes |-> << >>, stateNodes |-> << >>, apps |-> << >>]
  /\ mounts = << >>
  /\ runtime = "loading"

\* new Store()
StoreStart ==
  /\ data = [n \in {} |-> Null]
  /\ computed = [n \in {} |-> << >>]
  /\ schemas = [n \in {} |-> Null]
  /\ state = [n \in {} |-> Null]
  /\ heap = EmptyHeap
  /\ ret = Undef
  /\ call = [op |-> "init"]
  /\ muts = 0
  /\ registered = [n \in {} |-> Null]
  /\ persists = {}

StoreInit == NoShell /\ NoPage /\ StoreStart

\* Store.load(node) of a node with a compute attribute
LoadComputed(name, compute) ==
  /\ computed' = [n \in DOMAIN computed \cup {name} |-> IF n = name THEN compute ELSE computed[n]]
  /\ call' = [op |-> "load", name |-> name, kind |-> "computed", ok |-> TRUE]
  /\ Commit(data, heap, Undef)
  /\ UNCHANGED <<schemas, muts, registered, state, persists>>
  /\ UNCHANGED <<shellVars, runtimeVars>>

\* a raw branch that stores the payload before it validates it
RawLoad_StoreFirst(d, h, sch, name, text, schema) ==
  LET p == JSONParse(h, text)
  IN IF p.ok THEN [ok |-> ~(schema # "" /\ schema \in DOMAIN sch) \/ Validate(p.h, p.v, sch[schema]),
                   data |-> Put(d, name, p.v), heap |-> p.h]
     ELSE [ok |-> FALSE, data |-> d, heap |-> h]

\* a raw branch that keeps the payload a name already holds
RawLoad_KeepFirst(d, h, sch, name, text, schema) ==
  LET p == JSONParse(h, text)
      accepted == /\ p.ok
                  /\ (schema # "" /\ schema \in DOMAIN sch => Validate(p.h, p.v, sch[schema]))
  IN IF accepted
     THEN [ok |-> TRUE, data |-> IF name \in DOMAIN d THEN d ELSE Put(d, name, p.v), heap |-> p.h]
     ELSE [ok |-> FALSE, data |-> d, heap |-> h]

\* the raw branch of Store.load up to this.data[name] = payload: an error of
\* JSON.parse or of validate leaves the try block before the assignment
RawLoad(d, h, sch, name, text, schema) ==
  LET p == JSONParse(h, text)
      accepted == /\ p.ok
                  /\ (schema # "" /\ schema \in DOMAIN sch => Validate(p.h, p.v, sch[schema]))
  IN IF accepted THEN [ok |-> TRUE, data |-> Put(d, name, p.v), heap |-> p.h]
     ELSE [ok |-> FALSE, data |-> d, heap |-> h]

\* Store.load(node) of a node without a compute attribute; persistToIndexedDB
\* is started for persist="indexeddb" and touches nothing of the store; the
\* catch of load logs every error, so the call returns normally
LoadRaw(name, text, schema, persist) ==
  LET r == RawLoad(data, heap, schemas, name, text, schema)
  IN /\ call' = [op |-> "load", name |-> name, kind |-> "raw", ok |-> r.ok,
                 persisting |-> (r.ok /\ persist = "indexeddb"),
                 text |-> text, schema |-> schema, outcome |-> "returned"]
     /\ Commit(r.data, r.heap, Undef)
     /\ registered' = IF r.ok THEN Put(registered, name, text) ELSE registered
     /\ persists' = IF r.ok /\ persist = "indexeddb" THEN persists \cup {name} ELSE persists
     /\ UNCHANGED <<computed, schemas, muts, state>>
     /\ UNCHANGED <<shellVars, runtimeVars>>

\* a caller reads a name with Store.get
Get(name) ==
  LET r == StoreGet(data, computed, heap, name)
  IN /\ Commit(data, r.h, r.v)
     /\ call' = [op |-> "get", name |-> name]
     /\ UNCHANGED <<computed, schemas, muts, registered, state, persists>>
     /\ UNCHANGED <<shellVars, runtimeVars>>

\* a caller (the renderer) evaluates an expression with Store.evalComputed
Eval(expr) ==
  LET r == EvalComputed(data, heap, expr)
  IN /\ Commit(data, r.h, r.v)
     /\ call' = [op |-> "eval", expr |-> expr]
     /\ UNCHANGED <<computed, schemas, muts, registered, state, persists>>
     /\ UNCHANGED <<shellVars, runtimeVars>>

\* the caller assigns a field of an object it reached through the returned value
MutateField(r, k, v) ==
  /\ IsRef(ret) /\ muts < MaxMutations
  /\ r \in Reach(heap, {ret.r})
  /\ heap[r].tag = "obj"
  /\ Lookup(heap[r].fields, k) # v
  /\ Commit(data,
            [heap EXCEPT ![r].fields =
               [x \in DOMAIN heap[r].fields \cup {k} |-> IF x = k THEN v ELSE heap[r].fields[x]]],
            ret)
  /\ muts' = muts + 1
  /\ call' = [op |-> "mutate", of |-> IF call.op = "mutate" THEN call.of ELSE call]
  /\ UNCHANGED <<computed, schemas, registered, state, persists>>
  /\ UNCHANGED <<shellVars, runtimeVars>>

\* the caller pops the last item of an array it reached through the returned value
MutatePop(r) ==
  /\ IsRef(ret) /\ muts < MaxMutations
  /\ r \in Reach(heap, {ret.r})
  /\ heap[r].tag = "arr"
  /\ heap[r].items # << >>
  /\ Commit(data, [heap EXCEPT ![r].items = SubSeq(heap[r].items, 1, Len(heap[r].items) - 1)], ret)
  /\ muts' = muts + 1
  /\ call' = [op |-> "mutate", of |-> IF call.op = "mutate" THEN call.of ELSE call]
  /\ UNCHANGED <<computed, schemas, registered, state, persists>>
  /\ UNCHANGED <<shellVars, runtimeVars>>

StoreNext ==
  \/ \E nd \in ComputedNodes : LoadComputed(nd.name, nd.compute)
  \/ \E n \in Names, t \in Texts : LoadRaw(n, t, "", PersistAttr(n))
  \/ \E n \in ReadNames : Get(n)
  \/ \E e \in Exprs \cup OtherExprs \cup TokenExprs \cup BothForms : Eval(e)
  \/ \E r \in DOMAIN heap, v \in {Bool(TRUE), Bool(FALSE)} : MutateField(r, "active", v)
  \/ \E r \in DOMAIN heap : MutatePop(r)

StoreSpec == StoreInit /\ [][StoreNext]_vars

(***************************************************************************)
(* Registration and state cells: the Store as page scripts drive it        *)
(* through window.h6x.store                                                *)
(***************************************************************************)
StateNames == {"mode", "tab"}
StateValues == {Str("a"), Str("b")}
InitialAttrs == {Absent, "", "a"}
SchemaTypes == {"array", "object"}
\* the <h6x-data name="users" schema="list"> bodies scripts load
RegistryTexts == {TArr(<< >>), E1, Num(0), InvalidJSON}

\* Store.getState(name)
StoreGetState(st, name) == Lookup(st, name)

\* Store.notifyStateChange(stateName): the CustomEvent dispatched on window,
\* and what a listener calling getState(detail.name) reads during the dispatch
NotifyStateChange(st, stateName) ==
  [type |-> "h6x:state-change", name |-> stateName, value |-> Lookup(st, stateName),
   heard |-> StoreGetState(st, stateName)]

\* a setState that notifies only when the value changes
StoreSetState_Quiet(st, name, value) ==
  [state |-> Put(st, name, value),
   events |-> IF Lookup(st, name) = value THEN << >>
              ELSE << NotifyStateChange(Put(st, name, value), name) >>]

\* Store.setState(name, value): the cell is assigned, then the change is
\* dispatched synchronously
StoreSetState(st, name, value) ==
  [state |-> Put(st, name, value),
   events |-> << NotifyStateChange(Put(st, name, value), name) >>]

\* a page script assigns window.h6x.store.schemas[name] = {type: ...}
RegisterSchema(name, type) ==
  /\ schemas' = Put(schemas, name, [type |-> type])
  /\ call' = [op |-> "schema", name |-> name, type |-> type]
  /\ Commit(data, heap, Undef)
  /\ UNCHANGED <<computed, state, muts, registered, persists>>
  /\ UNCHANGED <<shellVars, runtimeVars>>

\* Store.loadState(node): this.state[name] = initial || null
LoadState(name, initial) ==
  /\ state' = Put(state, name, IF Truthy(initial) THEN Str(initial) ELSE Null)
  /\ call' = [op |-> "loadState", name |-> name, initial |-> initial]
  /\ Commit(data, heap, Undef)
  /\ UNCHANGED <<computed, schemas, muts, registered, persists>>
  /\ UNCHANGED <<shellVars, runtimeVars>>

\* a caller sets a state cell with Store.setState
SetState(name, value) ==
  LET r == StoreSetState(state, name, value)
  IN /\ state' = r.state
     /\ call' = [op |-> "setState", name |-> name, value |-> value, events |-> r.events,
                 was |-> Lookup(state, name)]
     /\ Commit(data, heap, Undef)
     /\ UNCHANGED <<computed, schemas, muts, registered, persists>>
     /\ UNCHANGED <<shellVars, runtimeVars>>

\* a caller reads a state cell with Store.getState
GetState(name) ==
  /\ call' = [op |-> "getState", name |-> name]
  /\ Commit(data, heap, StoreGetState(state, name))
  /\ UNCHANGED <<computed, schemas, state, muts, registered, persists>>
  /\ UNCHANGED <<shellVars, runtimeVars>>

\* an IndexedDB adapter that undoes the registration when it fails
PersistToIndexedDB_Rollback(d, name, outcome) ==
  IF outcome = "failed" THEN [n \in DOMAIN d \ {name} |-> d[n]] ELSE d

\* Store.persistToIndexedDB(name, data) seen from the store: whether openDB
\* and put succeed ("stored") or one of them fails ("failed", caught and
\* logged), this.data is left as it is
PersistToIndexedDB(d, name, outcome) == d

\* what Store.get returns for every name a page reads
GetView ==
  [n \in ReadNames |-> LET r == StoreGet(data, computed, heap, n) IN Deep(r.h, r.v)]

\* the continuation of a persistToIndexedDB call that load started and did
\* not await; the call record keeps what get answered before it ran
PersistSettle(name, outcome) ==
  /\ name \in persists
  /\ persists' = persists \ {name}
  /\ Commit(PersistToIndexedDB(data, name, outcome), heap, ret)
  /\ call' = [op |-> "persisted", name |-> name, outcome |-> outcome,
              logged |-> (outcome = "failed"), before |-> GetView]
  /\ UNCHANGED <<computed, schemas, state, muts, registered>>
  /\ UNCHANGED <<shellVars, runtimeVars>>

\* registrations with a persistence directive, the adapter's continuations
\* and reads
PersistNext ==
  \/ \E nd \in ComputedNodes : LoadComputed(nd.name, nd.compute)
  \/ \E n \in Names, t \in Texts : LoadRaw(n, t, "", PersistAttr(n))
  \/ \E n \in Names, outcome \in {"stored", "failed"} : PersistSettle(n, outcome)
  \/ \E n \in ReadNames : Get(n)

PersistSpec == StoreInit /\ [][PersistNext]_vars

RegistryNext ==
  \/ \E nd \in ComputedNodes : LoadComputed(nd.name, nd.compute)
  \/ \E t \in RegistryTexts, schema \in {"", "list"} : LoadRaw("users", t, schema, PersistAttr("users"))
  \/ \E type \in SchemaTypes : RegisterSchema("list", type)
  \/ \E n \in StateNames, initial \in InitialAttrs : LoadState(n, initial)
  \/ \E n \in StateNames, v \in StateValues : SetState(n, v)
  \/ \E n \in StateNames : GetState(n)

RegistrySpec == StoreInit /\ [][RegistryNext]_vars

(***************************************************************************)
(* Properties of the Store                                                 *)
(***************************************************************************)
\* the store's canonical data, as trees
Canonical == [n \in DOMAIN data |-> Deep(heap, data[n])]

\* a Store.get of a name that has raw data and no computed binding
IsRawGet(c) == c.op = "get" /\ c.name \in DOMAIN data /\ c.name \notin DOMAIN computed

\* C1: a Store.get of a name registered as raw data returns a value deeply
\* equal to the registered payload, and not the store's own object.
C1_GetReturnsRegisteredPayload ==
  (IsRawGet(call) /\ call.name \in DOMAIN registered)
    => /\ Deep(heap, ret) = registered[call.name]
       /\ (IsRef(ret) => ret # data[call.name])

\* C2: a caller's mutation of a value returned by a raw read leaves the
\* store's canonical data unchanged, and a raw read of an object or array
\* returns a copy deeply equal to the canonical data without changing it.
C2_RawReadsAreIsolated ==
  [][ /\ (call'.op = "mutate" /\ IsRawGet(call'.of)) => Canonical' = Canonical
      /\ (IsRawGet(call') /\ IsRef(data[call'.name]))
           => /\ Deep(heap', ret') = Canonical[call'.name]
              /\ Canonical' = Canonical ]_vars

\* C2 witness: the caller has mutated the copy a raw read returned, and the
\* store still holds the payload as it was registered.
C2_Witness ==
  /\ call.op = "mutate" /\ IsRawGet(call.of)
  /\ call.of.name \in DOMAIN registered
  /\ Deep(heap, ret) # registered[call.of.name]
  /\ Deep(heap, data[call.of.name]) = registered[call.of.name]

\* the items of a tree array whose field k is the boolean b
ItemsWithField(t, k, b) ==
  LET has(it) == it.tag = "obj" /\ k \in DOMAIN it.fields /\ it.fields[k] = Bool(b)
  IN SelectSeq(t.items, has)

\* C9: c.filter(k=true) over a registered array returns exactly the elements
\* whose field k is the boolean true, in order; c.filter(k=false) those whose
\* field k is the boolean false.
C9_FilterSelectsBooleanField ==
  \A c \in Names, k \in Keys, lit \in {"true", "false"} :
    (/\ call.op = "eval" /\ call.expr = FilterExpr(c, k, lit)
     /\ c \in DOMAIN data /\ IsArray(heap, data[c]))
      => /\ IsRef(ret)
         /\ Deep(heap, ret) = TArr(ItemsWithField(Deep(heap, data[c]), k, lit = "true"))

\* C10: c.count is the number of elements of a registered array c, and 0 when
\* c is not registered or is not an array.
C10_CountOfCollection ==
  \A c \in Names :
    (call.op = "eval" /\ call.expr = CountExpr(c))
      => ret = IF c \in DOMAIN data /\ Deep(heap, data[c]).tag = "arr"
               THEN Num(Len(Deep(heap, data[c]).items))
               ELSE Num(0)

\* C10 witness: the count of a registered three-element array was evaluated
C10_Witness ==
  /\ call.op = "eval" /\ call.expr = CountExpr("users")
  /\ "users" \in DOMAIN data /\ IsArray(heap, data["users"])
  /\ Len(heap[data["users"].r].items) = 3
  /\ ret = Num(3)

\* the whole expression is <collection>.filter(<key>=<literal>)
IsFilterForm(e) ==
  /\ Len(e) = 8
  /\ IsWord(e[1]) /\ e[2] = "." /\ e[3] = "filter" /\ e[4] = "("
  /\ IsWord(e[5]) /\ e[6] = "=" /\ IsWord(e[7]) /\ e[8] = ")"

\* the whole expression is <collection>.count
IsCountForm(e) == Len(e) = 3 /\ IsWord(e[1]) /\ e[2] = "." /\ e[3] = "count"

\* C11: evalComputed of an expression that is not exactly of one of the two
\* grammar forms returns null and raises nothing.
C11_OnlyGrammarFormsEvaluate ==
  (call.op = "eval" /\ ~IsFilterForm(call.expr) /\ ~IsCountForm(call.expr)) => ret = Null

\* the declared type of a schema does not fit a parsed payload (typeof takes
\* arrays and null for objects)
TypeMismatch(t, type) ==
  \/ type = "array" /\ t.tag # "arr"
  \/ type = "object" /\ t.tag \notin {"obj", "arr", "null"}

\* the raw registration the call record c describes fails, given the schemas sch
RegistrationFails(c, sch) ==
  /\ c.op = "load" /\ c.kind = "raw"
  /\ \/ c.text = InvalidJSON
     \/ c.schema \in DOMAIN sch /\ TypeMismatch(c.text, sch[c.schema].type)

\* C17: a raw registration that fails (invalid JSON body, schema type
\* mismatch) leaves the store unchanged: the raw data, with any payload
\* registered earlier, the computed bindings and the state cells.
C17_FailedRegistrationChangesNothing ==
  [][ RegistrationFails(call', schemas)
        => /\ Canonical' = Canonical
           /\ computed' = computed
           /\ state' = state
           /\ schemas' = schemas ]_vars

\* C17 witness: an object payload was refused by an array schema, and the
\* array registered earlier under the name is still there
C17_Witness ==
  /\ RegistrationFails(call, schemas) /\ call.text = E1
  /\ "users" \in DOMAIN data /\ Deep(heap, data["users"]) = TArr(<< >>)
  /\ DOMAIN computed # {} /\ DOMAIN state # {}

\* C18: a schema type mismatch of a raw registration reaches the caller of
\* the registration as an error, while an invalid JSON body does not.
C18_SchemaFailureSurfaces ==
  (call.op = "load" /\ call.kind = "raw")
    => IF call.text # InvalidJSON /\ RegistrationFails(call, schemas)
       THEN call.outcome = "raised"
       ELSE call.outcome = "returned"

\* C19: setState(name, value) assigns the cell and dispatches exactly one
\* state-change event carrying name and value before it returns, also when
\* the value is the one the cell already held; getState(name) inside a
\* listener and right after the call returns value.
C19_SetStateBroadcasts ==
  [][ /\ call'.op = "setState"
        => /\ Len(call'.events) = 1
           /\ call'.events[1].name = call'.name
           /\ call'.events[1].value = call'.value
           /\ call'.events[1].heard = call'.value
           /\ StoreGetState(state', call'.name) = call'.value
      /\ (call.op = "setState" /\ call'.op = "getState" /\ call'.name = call.name)
        => ret' = call.value ]_vars

\* C19 witness: a cell holding "a" was set to "a" again and the event was dispatched
C19_Witness ==
  /\ call.op = "setState" /\ call.name = "mode" /\ call.value = Str("a")
  /\ call.was = Str("a") /\ call.events # << >>
  /\ "tab" \in DOMAIN state /\ state["tab"] = Str("b")

\* the items of a tree array whose field k is the string tok
ItemsWithString(t, k, tok) ==
  LET has(it) == it.tag = "obj" /\ k \in DOMAIN it.fields /\ it.fields[k] = Str(tok)
  IN SelectSeq(t.items, has)

\* C29: c.filter(k=tok) for a bare token tok other than true and false
\* returns exactly the elements of the registered array c whose field k is
\* the string tok, in order; an element whose field is a number or a boolean
\* is not among them.
C29_BareTokenComparesAsString ==
  \A c \in Names, k \in Keys, tok \in Tokens :
    (/\ call.op = "eval" /\ call.expr = FilterExpr(c, k, tok)
     /\ c \in DOMAIN data /\ IsArray(heap, data[c]))
      => /\ IsRef(ret)
         /\ Deep(heap, ret) = TArr(ItemsWithString(Deep(heap, data[c]), k, tok))

\* what a filter for the boolean b on key k comes to on a payload tree: null
\* on a falsy payload, an error on one that is not an array or that holds a
\* null element
FilterOfTree(t, k, b) ==
  IF Falsy(t) THEN Null
  ELSE IF t.tag # "arr" THEN Threw
  ELSE IF \E i \in 1..Len(t.items) : t.items[i].tag = "null" THEN Threw
  ELSE TArr(ItemsWithField(t, k, b))

\* the same on the payload registered under the name c, if any
FilterOfRegistered(c, k, b) ==
  IF c \notin DOMAIN registered THEN Null ELSE FilterOfTree(registered[c], k, b)

\* C24: while callers only register and read, Store.get of a computed name
\* returns what its expression comes to on the payloads registered at the
\* time of the read, whether the collection was registered before or after
\* the binding and however often it was registered again.
C24_ComputedIsNeverCached ==
  \A nd \in ComputedNodes :
    (/\ muts = 0
     /\ call.op = "get" /\ call.name = nd.name
     /\ nd.name \in DOMAIN computed)
      => LET m == FilterMatch(computed[nd.name])
         IN Deep(heap, ret) = FilterOfRegistered(m.dataName, m.key, m.value = "true")

\* the binding was read over a collection registered as three elements
C24_Witness ==
  /\ muts = 0
  /\ call.op = "get" /\ call.name = "activeUsers" /\ "activeUsers" \in DOMAIN computed
  /\ "users" \in DOMAIN registered /\ registered["users"] = TArr(<<E1, E2, E3>>)
  /\ Deep(heap, ret) = TArr(<<E1>>)

C31_EvaluationNeverRaises ==
  /\ (call.op = "eval" \/ (call.op = "get" /\ call.name \in DOMAIN computed))
       => ret # Threw
  /\ \A c \in Names, k \in Keys, lit \in {"true", "false"} :
       (call.op = "eval" /\ call.expr = FilterExpr(c, k, lit) /\ c \notin DOMAIN data)
         => ret = Null

\* a read through a computed binding or a direct evaluation of an expression
IsComputedRead(c) ==
  \/ c.op = "eval"
  \/ c.op = "get" /\ c.name \in DOMAIN computed

\* C35: a caller's mutation of a value obtained through a computed read, the
\* elements of a filter result included, leaves the store's canonical data,
\* and so what later raw and computed reads return, unchanged.
C35_ComputedReadsAreIsolated ==
  [][(call'.op = "mutate" /\ IsComputedRead(call'.of)) => Canonical' = Canonical]_vars

\* C22: when the persistence adapter fails for a registered name, the
\* registration stays in effect and Store.get answers for every name what it
\* answered before the failure, which is what it answers after a success; the
\* failure is logged inside the adapter, after load has returned.
C22_PersistFailureIsContained ==
  (call.op = "persisted" /\ call.outcome = "failed")
    => /\ call.name \in DOMAIN data
       /\ call.name \in DOMAIN registered
       /\ GetView = call.before
       /\ call.logged

C22_Witness ==
  /\ call.op = "persisted" /\ call.outcome = "failed"
  /\ call.name \in DOMAIN data
  /\ GetView[call.name] = TArr(<<E1, E2, E3>>)

(***************************************************************************)
(* Atomic runtime (src/h6x-atomic-runtime.js): markup, strings, rules      *)
(***************************************************************************)
\* `${a}`: the text an attribute value contributes to a template string
Template(a) == IF a = Absent THEN "null" ELSE a
\* a || dflt
OrElse(a, dflt) == IF Truthy(a) THEN a ELSE dflt

\* the characters of the strings that occur as data
Chars(s) ==
  CASE s = "" -> << >>
    [] s = "abc" -> <<"a", "b", "c">>
    [] s = "a@b.com" -> <<"a", "@", "b", ".", "c", "o", "m">>
    [] s = "bob" -> <<"b", "o", "b">>
    [] s = "secret12" -> <<"s", "e", "c", "r", "e", "t", "1", "2">>
    [] s = "guest" -> <<"g", "u", "e", "s", "t">>
    [] OTHER -> <<"?">>

\* String(value), as characters
ToChars(v) ==
  IF v.tag = "str" THEN Chars(v.s)
  ELSE IF v.tag = "null" THEN <<"n", "u", "l", "l">>
  ELSE IF v.tag = "undef" THEN <<"u", "n", "d", "e", "f", "i", "n", "e", "d">>
  ELSE <<"?">>

\* /^[^\s@]+@[^\s@]+\.[^\s@]+$/.test(email)
IsValidEmail(v) ==
  LET cs == ToChars(v)
      plain(i, j) == i <= j /\ \A x \in i..j : cs[x] \notin {" ", "@"}
  IN \E a \in 1..Len(cs), d \in 1..Len(cs) :
       /\ a < d /\ cs[a] = "@" /\ cs[d] = "."
       /\ plain(1, a - 1) /\ plain(a + 1, d - 1) /\ plain(d + 1, Len(cs))

\* Text is a sequence of tokens: words, digit runs and single other characters
RECURSIVE SplitOn(_, _)
SplitOn(ts, sep) ==
  LET S == {i \in 1..Len(ts) : ts[i] = sep}
  IN IF S = {} THEN <<ts>>
     ELSE <<SubSeq(ts, 1, Min(S) - 1)>> \o SplitOn(SubSeq(ts, Min(S) + 1, Len(ts)), sep)

RECURSIVE Trim(_)
Trim(ts) ==
  IF ts = << >> THEN ts
  ELSE IF Head(ts) = " " THEN Trim(Tail(ts))
  ELSE IF ts[Len(ts)] = " " THEN Trim(SubSeq(ts, 1, Len(ts) - 1))
  ELSE ts

\* the i-th element of a destructured split, trimmed; empty when there is none
Part(parts, i) == IF i <= Len(parts) THEN Trim(parts[i]) ELSE << >>

\* the string a text of one token spells (property names of the documents are
\* single words none of which Object.prototype defines)
Spell(ts) == IF Len(ts) = 1 THEN ts[1] ELSE IF ts = << >> THEN "" ELSE "<text>"

NoRules == [k \in {} |-> << >>]

\* the validate and transform branches of parseNeutronRules: "field: r1, r2"
RECURSIVE ParseListLines(_, _)
ParseListLines(lines, rules) ==
  IF lines = << >> THEN rules
  ELSE LET parts == SplitOn(Head(lines), ":")
           field == Part(parts, 1)
           rulesStr == Part(parts, 2)
           items == SplitOn(rulesStr, ",")
       IN ParseListLines(Tail(lines),
            IF field # << >> /\ rulesStr # << >>
            THEN Put(rules, Spell(field), [i \in 1..Len(items) |-> Trim(items[i])])
            ELSE rules)

\* the compute branch of parseNeutronRules: "name = expression"
RECURSIVE ParseComputeLines(_, _)
ParseComputeLines(lines, rules) ==
  IF lines = << >> THEN rules
  ELSE LET parts == SplitOn(Head(lines), "=")
           name == Part(parts, 1)
           expression == Part(parts, 2)
       IN ParseComputeLines(Tail(lines),
            IF name # << >> /\ expression # << >>
            THEN Put(rules, Spell(name), expression)
            ELSE rules)

\* a parser that reads the lines of a neutron of any type as rule lists
ParseNeutronRules_AnyKind(content, type) ==
  IF type = "compute" THEN ParseComputeLines(content, NoRules)
  ELSE ParseListLines(content, NoRules)

\* NucleusManager.parseNeutronRules(content, type)
ParseNeutronRules(content, type) ==
  IF type = "validate" THEN ParseListLines(content, NoRules)
  ELSE IF type = "compute" THEN ParseComputeLines(content, NoRules)
  ELSE IF type = "transform" THEN ParseListLines(content, NoRules)
  ELSE NoRules

RuleRequired == <<"required">>
RuleEmailFormat == <<"email", "-", "format">>
RuleMinLength(n) == <<"minLength", "(", n, ")">>

\* the digit runs of the documents and parseInt of them
Digits == {"3", "8"}
ParseInt(t) == IF t = "3" THEN 3 ELSE 8

\* value.length; reading it off undefined or null raises a TypeError
LengthOf(v) ==
  IF v.tag \in {"undef", "null"} THEN Threw
  ELSE IF v.tag = "str" THEN Num(Len(Chars(v.s)))
  ELSE IF v.tag = "arr" THEN Num(Len(v.items))
  ELSE Undef

\* one rule of NucleusManager.validate applied to a value:
\* "ok", an error message, or "throw"
ApplyRule(rule, value) ==
  IF rule = RuleRequired /\ Falsy(value) THEN "This field is required"
  ELSE IF rule = RuleEmailFormat /\ ~IsValidEmail(value) THEN "Invalid email format"
  ELSE IF rule # << >> /\ rule[1] = "minLength" THEN
    LET ds == {i \in 1..Len(rule) : rule[i] \in Digits}
    IN IF ds = {} \/ LengthOf(value) = Threw THEN "throw"
       ELSE IF LengthOf(value).tag = "num" /\ LengthOf(value).n < ParseInt(rule[Min(ds)])
            THEN "Minimum length"
            ELSE "ok"
  ELSE "ok"

\* NucleusManager.validate(data, neutron)
NucleusValidate(d, neutron) ==
  LET outcome(f) == [i \in 1..Len(neutron.rules[f]) |-> ApplyRule(neutron.rules[f][i], Lookup(d, f))]
      isError(o) == o \notin {"ok", "throw"}
      errors == [f \in {g \in DOMAIN neutron.rules : SelectSeq(outcome(g), isError) # << >>} |->
                   SelectSeq(outcome(f), isError)]
  IN IF \E f \in DOMAIN neutron.rules : \E i \in 1..Len(outcome(f)) : outcome(f)[i] = "throw"
     THEN [threw |-> TRUE, valid |-> FALSE, errors |-> errors]
     ELSE [threw |-> FALSE, valid |-> DOMAIN errors = {}, errors |-> errors]

(***************************************************************************)
(* The documents the atomic runtime is booted on                           *)
(***************************************************************************)
MaxFetches == 1
MaxTimers == 2

Proton(source, local, persist, fallback) ==
  [source |-> source, local |-> local, cache |-> Absent, persist |-> persist, fallback |-> fallback]
Neutron(type, content) == [type |-> type, content |-> content]
Electron(on, action, endpoint, method, redirect, bond, emit, listen) ==
  [on |-> on, action |-> action, endpoint |-> endpoint, method |-> method,
   redirect |-> redirect, bond |-> bond, emit |-> emit, listen |-> listen]

\* a form whose submit logs in, emits X and goes to /home
LoginAtom(endpoint, method) ==
  [name |-> "login",
   protons |-> << Proton(Absent, "email", Absent, Absent),
                  Proton("/api/password", "password", "localstorage", "guest") >>,
   neutrons |-> << Neutron("validate",
                      << <<"email", ":", " ", "required", ",", " ", "email", "-", "format">>,
                         <<"password", ":", " ", "required", ",", "minLength", "(", "8", ")">> >>),
                   Neutron("compute", << <<"isValid", " ", "=", " ", "email", ".", "valid">>,
                                         <<"same", " ", "=", " ", "a", " ", "=", "=", " ", "b">> >>) >>,
   electrons |-> << Electron("submit", "login", endpoint, method, "/home", Absent, "X", Absent),
                    Electron("click", "validate", Absent, Absent, Absent, Absent, "Y", Absent) >>]

\* a component bonded to login: on X it is to send its own data
ProfileAtom ==
  [name |-> "profile",
   protons |-> << Proton(Absent, "name", Absent, Absent) >>,
   neutrons |-> << Neutron("validate", << <<"name", ":", "required">> >>) >>,
   electrons |-> << Electron(Absent, "send", "/api/profile", "POST", Absent, "login", Absent, "X"),
                    Electron("click", "redirect", Absent, Absent, "/next", Absent, "X", Absent) >>]

\* a component that only listens
AuditAtom ==
  [name |-> "audit",
   protons |-> << >>,
   neutrons |-> << >>,
   electrons |-> << Electron(Absent, "refresh", Absent, Absent, Absent, "login", Absent, "X"),
                    Electron(Absent, "refresh", Absent, Absent, Absent, "profile", Absent, "Y"),
                    Electron(Absent, "refresh", Absent, Absent, Absent, "login", Absent, Absent) >>]

Document(endpoint, method) ==
  [atoms |-> <<LoginAtom(endpoint, method), ProfileAtom, AuditAtom>>,
   molecules |-> << [name |-> "app", atoms |-> <<1, 2, 3>>] >>]

\* what localStorage holds under "email" when the page loads
StoredEmails == {Absent, "", "abc", "a@b.com"}
\* what it holds under "password": nothing, or the body an earlier visit persisted
StoredPasswords == {Absent, "old12345"}
InitialStorage(email, password) ==
  LET named == ("name" :> Str("bob"))
      mailed == IF email = Absent THEN named ELSE named @@ ("email" :> Str(email))
  IN IF password = Absent THEN mailed ELSE mailed @@ ("password" :> Str(password))

\* the bodies the password service answers with
RemotePayloads == {Str("secret12"), Str("abc")}

(***************************************************************************)
(* AtomicKernel, NucleusManager: parsing                                   *)
(***************************************************************************)
\* NucleusManager.loadLocalData(key)
LoadLocalData(st, key) ==
  IF key \notin DOMAIN st THEN Null
  ELSE IF st[key] = InvalidJSON THEN Null
  ELSE st[key]

\* NucleusManager.extractProtons(atomNode): the proton objects
ExtractProtons(node, st) ==
  [i \in 1..Len(node.protons) |->
     LET n == node.protons[i]
     IN [id |-> <<"p", i - 1>>, source |-> n.source, local |-> n.local,
         cache |-> OrElse(n.cache, "memory"), persist |-> n.persist, fallback |-> n.fallback,
         data |-> IF Truthy(n.local) THEN LoadLocalData(st, n.local) ELSE Null]]

\* NucleusManager.extractNeutrons(atomNode)
ExtractNeutrons(node) ==
  [i \in 1..Len(node.neutrons) |->
     [id |-> <<"n", i - 1>>, type |-> node.neutrons[i].type,
      rules |-> ParseNeutronRules(node.neutrons[i].content, node.neutrons[i].type),
      weight |-> 1]]

\* ElectronShell.getOrbital(eventType)
GetOrbital(eventType) ==
  IF eventType \in {"click", "submit"} THEN 1
  ELSE IF eventType \in {"change", "input"} THEN 2
  ELSE IF eventType \in {"focus", "blur"} THEN 3
  ELSE 4

\* ElectronShell.extractElectrons(atomNode)
ExtractElectrons(node) ==
  [i \in 1..Len(node.electrons) |->
     LET n == node.electrons[i]
     IN [id |-> <<"e", i - 1>>, on |-> n.on, action |-> n.action, endpoint |-> n.endpoint,
         method |-> OrElse(n.method, "GET"), redirect |-> n.redirect, bond |-> n.bond,
         emit |-> n.emit, listen |-> n.listen, energy |-> "ground",
         orbital |-> GetOrbital(n.on)]]

\* neutrons.length > 0 ? neutrons.length / protons.length : 1.0, as a fraction
\* (a zero denominator is JavaScript's Infinity)
Stability(np, nn) == IF nn > 0 THEN [num |-> nn, den |-> np] ELSE [num |-> 1, den |-> 1]
BelowOne(st) == st.den > 0 /\ st.num < st.den

\* AtomicKernel.parseAtom(atomNode): the atom object
ParseAtom(node, st) ==
  LET protons == ExtractProtons(node, st)
      neutrons == ExtractNeutrons(node)
      electrons == ExtractElectrons(node)
  IN [name |-> node.name,
      atomicNumber |-> Len(protons),
      atomicMass |-> Len(protons) + Len(neutrons),
      stability |-> Stability(Len(protons), Len(neutrons)),
      protons |-> protons, neutrons |-> neutrons, electrons |-> electrons]

\* the stability check of parseAtom: the advisory is logged
Advisory(atom) == BelowOne(atom.stability) /\ atom.atomicNumber > 2

\* the type of the CustomEvent a signal name travels as
EventType(name) == <<"atom:", Template(name)>>

\* a bond that subscribes to the signal the electron emits
CreateBond_Emitted(a, e, electron) == [type |-> EventType(electron.emit), atom |-> a, el |-> e]

\* ElectronShell.createBond(atom, electron): the listener added to window
CreateBond(a, e, electron) == [type |-> EventType(electron.listen), atom |-> a, el |-> e]

\* ElectronShell.bindEvents(atom, container): the listeners it adds, as
\* <<container listeners, window listeners>>
RECURSIVE BindEvents(_, _, _, _)
BindEvents(a, electrons, e, acc) ==
  IF e > Len(electrons) THEN acc
  ELSE LET el == electrons[e]
           dom == IF Truthy(el.on) /\ Truthy(el.action)
                  THEN Append(acc[1], [atom |-> a, type |-> el.on, el |-> e])
                  ELSE acc[1]
           win == IF Truthy(el.bond) THEN Append(acc[2], CreateBond(a, e, el)) ELSE acc[2]
       IN BindEvents(a, electrons, e + 1, <<dom, win>>)

\* AtomicKernel.render(atom, atomNode) for the atoms in document order
RECURSIVE RenderAll(_, _, _)
RenderAll(as, a, acc) ==
  IF a > Len(as) THEN acc
  ELSE RenderAll(as, a + 1,
         IF Len(as[a].electrons) > 0 THEN BindEvents(a, as[a].electrons, 1, acc) ELSE acc)

\* a register that keeps the component already held under the name
Register_KeepFirst(els, name, i) ==
  IF name \in DOMAIN els THEN els ELSE Put(els, name, i)

\* PeriodicTable.register(atom), atom being the i-th parsed atom:
\* this.elements.set(atom.name, atom)
Register(els, name, i) == Put(els, name, i)

\* PeriodicTable.getElement(name)
GetElement(els, as, name) == IF name \in DOMAIN els THEN as[els[name]] ELSE Undef

\* PeriodicTable.register for the atoms in document order, as boot calls it
RECURSIVE RegisterAll(_, _, _)
RegisterAll(as, i, acc) ==
  IF i > Len(as) THEN acc ELSE RegisterAll(as, i + 1, Register(acc, as[i].name, i))

Registry(as) == RegisterAll(as, 1, [n \in {} |-> 0])

\* BondingManager.detectBonds(atoms) over the <atom> nodes still in a molecule
RECURSIVE DetectBonds(_, _, _)
DetectBonds(d, nodes, acc) ==
  IF nodes = << >> THEN acc
  ELSE LET node == d.atoms[Head(nodes)]
           bonded(el) == el.bond # Absent
           es == SelectSeq(node.electrons, bonded)
       IN DetectBonds(d, Tail(nodes),
            acc \o [i \in 1..Len(es) |-> [from |-> node.name, to |-> es[i].bond, type |-> "covalent"]])

\* AtomicKernel.parseMolecule for every molecule; render has replaced the
\* <atom> nodes in `replaced` by their containers before molecules are read
RECURSIVE ParseMolecules(_, _, _, _)
ParseMolecules(d, m, replaced, acc) ==
  IF m > Len(d.molecules) THEN acc
  ELSE LET inDom(i) == i \notin replaced
       IN ParseMolecules(d, m + 1, replaced,
            acc \o DetectBonds(d, SelectSeq(d.molecules[m].atoms, inDom), << >>))

(***************************************************************************)
(* ElectronShell: the action protocol.  A callback transforms the machine  *)
(* m = [atoms, fetches, timers, location, trace].                          *)
(***************************************************************************)
SubmitClass(action) == action \in {"login", "send", "submit"}

Log(m, event) == [m EXCEPT !.trace = Append(@, event)]

\* ElectronShell.gatherProtonData(atom)
RECURSIVE GatherFrom(_, _)
GatherFrom(protons, acc) ==
  IF protons = << >> THEN acc
  ELSE GatherFrom(Tail(protons),
         IF Truthy(Head(protons).local) THEN Put(acc, Head(protons).local, Head(protons).data)
         ELSE acc)

GatherProtonData(atom) == GatherFrom(atom.protons, [k \in {} |-> Null])

\* a validation that checks nothing
ValidateWithNeutrons_NoCheck(d, atom) == [valid |-> TRUE, errors |-> {}]

\* ElectronShell.validateWithNeutrons(data, atom)
ValidateWithNeutrons(d, atom) ==
  LET fails(n, f) == (\E i \in 1..Len(n.rules[f]) : n.rules[f][i] = RuleRequired) /\ Falsy(Lookup(d, f))
      errors == {f \in UNION {DOMAIN atom.neutrons[i].rules : i \in 1..Len(atom.neutrons)} :
                   \E i \in 1..Len(atom.neutrons) :
                     /\ atom.neutrons[i].type = "validate"
                     /\ f \in DOMAIN atom.neutrons[i].rules
                     /\ fails(atom.neutrons[i], f)}
  IN [valid |-> errors = {}, errors |-> errors]

\* JSON.stringify(data) of a gathered object: properties holding undefined are left out
JSONStringify(d) == TObj([k \in {x \in DOMAIN d : d[x] # Undef} |-> d[k]])

\* ElectronShell.emitEvent(eventName, atom): the CustomEvent is dispatched to
\* the window listeners of its type, in the order they were added
RECURSIVE Dispatch(_, _, _, _)
Dispatch(m, ls, name, a) ==
  IF ls = << >> THEN m
  ELSE Dispatch(
         IF Head(ls).type = EventType(name)
         THEN Log(m, [ev |-> "invoke", atom |-> Head(ls).atom, el |-> Head(ls).el,
                      from |-> a, signal |-> name])
         ELSE m,
         Tail(ls), name, a)

EmitEvent(m, name, a, e) ==
  Dispatch(Log(m, [ev |-> "emit", signal |-> name, atom |-> a, el |-> e,
                   data |-> GatherProtonData(m.atoms[a])]),
           winListeners, name, a)

\* the end of executeAction: if (electron.emit) this.emitEvent(electron.emit, atom)
EmitIfDeclared(m, a, e) ==
  IF Truthy(m.atoms[a].electrons[e].emit)
  THEN EmitEvent(m, m.atoms[a].electrons[e].emit, a, e)
  ELSE m

\* a handleSubmit that calls fetch before it validates
HandleSubmit_FetchFirst(m, a, e) ==
  LET el == m.atoms[a].electrons[e]
      d == GatherProtonData(m.atoms[a])
      v == ValidateWithNeutrons(d, m.atoms[a])
      m1 == Log(m, [ev |-> "gather", by |-> "submit", atom |-> a, el |-> e, data |-> d])
      m2 == Log(m1, [ev |-> "fetch", atom |-> a, el |-> e, endpoint |-> el.endpoint,
                     method |-> el.method, body |-> JSONStringify(d)])
      m3 == Log(m2, [ev |-> "validate", atom |-> a, el |-> e, valid |-> v.valid, errors |-> v.errors])
  IN IF ~Truthy(el.endpoint) THEN Log(m, [ev |-> "noendpoint", atom |-> a, el |-> e])
     ELSE [m3 EXCEPT !.fetches = Append(@, [atom |-> a, el |-> e])]

\* a handleSubmit that emits the signal, and so runs the signal handlers,
\* between validating and calling fetch
HandleSubmit_EmitsFirst(m, a, e) ==
  LET el == m.atoms[a].electrons[e]
      d == GatherProtonData(m.atoms[a])
      v == ValidateWithNeutrons(d, m.atoms[a])
      m1 == Log(m, [ev |-> "gather", by |-> "submit", atom |-> a, el |-> e, data |-> d])
      m2 == Log(m1, [ev |-> "validate", atom |-> a, el |-> e, valid |-> v.valid, errors |-> v.errors])
      m3 == Log(EmitIfDeclared(m2, a, e),
                [ev |-> "fetch", atom |-> a, el |-> e, endpoint |-> el.endpoint,
                 method |-> el.method, body |-> JSONStringify(d)])
  IN IF ~Truthy(el.endpoint) THEN Log(m, [ev |-> "noendpoint", atom |-> a, el |-> e])
     ELSE IF ~v.valid THEN m2
     ELSE [m3 EXCEPT !.fetches = Append(@, [atom |-> a, el |-> e])]

\* ElectronShell.handleSubmit(electron, atom, event) up to its await
HandleSubmit(m, a, e) ==
  LET el == m.atoms[a].electrons[e]
      d == GatherProtonData(m.atoms[a])
      v == ValidateWithNeutrons(d, m.atoms[a])
      m1 == Log(m, [ev |-> "gather", by |-> "submit", atom |-> a, el |-> e, data |-> d])
      m2 == Log(m1, [ev |-> "validate", atom |-> a, el |-> e, valid |-> v.valid, errors |-> v.errors])
      m3 == Log(m2, [ev |-> "fetch", atom |-> a, el |-> e, endpoint |-> el.endpoint,
                     method |-> el.method, body |-> JSONStringify(d)])
  IN IF ~Truthy(el.endpoint) THEN Log(m, [ev |-> "noendpoint", atom |-> a, el |-> e])
     ELSE IF ~v.valid THEN m2
     ELSE [m3 EXCEPT !.fetches = Append(@, [atom |-> a, el |-> e])]

\* ElectronShell.handleValidation(electron, atom, event)
HandleValidation(m, a, e) ==
  LET d == GatherProtonData(m.atoms[a])
      v == ValidateWithNeutrons(d, m.atoms[a])
  IN Log(Log(m, [ev |-> "gather", by |-> "validate", atom |-> a, el |-> e, data |-> d]),
         [ev |-> "report", atom |-> a, el |-> e, valid |-> v.valid, errors |-> v.errors])

\* window.location.href = target
Navigate(m, target) ==
  Log([m EXCEPT !.location = Template(target)], [ev |-> "navigate", to |-> Template(target)])

\* ElectronShell.executeAction(electron, atom, event) up to the settling of
\* the fetch it awaits; without a fetch it runs to its end
ExecuteAction(m, a, e) ==
  LET el == m.atoms[a].electrons[e]
  IN IF SubmitClass(el.action) THEN
       LET m1 == HandleSubmit(m, a, e)
       IN IF Len(m1.fetches) > Len(m.fetches) THEN m1 ELSE EmitIfDeclared(m1, a, e)
     ELSE IF el.action = "validate" THEN EmitIfDeclared(HandleValidation(m, a, e), a, e)
     ELSE IF el.action = "redirect" THEN EmitIfDeclared(Navigate(m, el.redirect), a, e)
     ELSE EmitIfDeclared(Log(m, [ev |-> "unknown", atom |-> a, el |-> e]), a, e)

\* a listener that leaves the reset out
Handler_NoReset(m, a, e) ==
  ExecuteAction(Log([m EXCEPT !.atoms[a].electrons[e].energy = "excited"],
                    [ev |-> "excite", atom |-> a, el |-> e]), a, e)

\* the listener attachEventListener adds: excite, execute, schedule the reset
Handler(m, a, e) ==
  LET m1 == Log([m EXCEPT !.atoms[a].electrons[e].energy = "excited"],
                [ev |-> "excite", atom |-> a, el |-> e])
      m2 == ExecuteAction(m1, a, e)
  IN [m2 EXCEPT !.timers = Append(@, <<a, e>>)]

\* the listeners of a container run in the order they were added
RECURSIVE RunHandlers(_, _)
RunHandlers(m, ls) ==
  IF ls = << >> THEN m ELSE RunHandlers(Handler(m, Head(ls).atom, Head(ls).el), Tail(ls))

\* the rest of handleSubmit and executeAction once the fetch has settled
\* ("ok": response.ok; "notok": another status; "reject": the fetch failed,
\* which the catch block reports with console.error)
ResumeSubmit(m, a, e, outcome) ==
  LET el == m.atoms[a].electrons[e]
      m0 == Log(m, [ev |-> "response", atom |-> a, el |-> e, outcome |-> outcome])
      m1 == IF outcome = "reject"
            THEN Log(m0, [ev |-> "error", atom |-> a, el |-> e, message |-> "Submit failed"])
            ELSE m0
      m2 == IF outcome = "ok" /\ Truthy(el.redirect) THEN Navigate(m1, el.redirect) ELSE m1
  IN EmitIfDeclared(m2, a, e)

(***************************************************************************)
(* The atomic runtime as a state machine                                   *)
(***************************************************************************)
Machine == [atoms |-> atoms, fetches |-> fetches, timers |-> timers,
            location |-> location, trace |-> << >>]

Becomes(m) ==
  /\ atoms' = m.atoms
  /\ fetches' = m.fetches
  /\ timers' = m.timers
  /\ location' = m.location
  /\ trace' = m.trace

\* the page as it is loaded: new AtomicKernel(), nothing parsed yet
ShellInit ==
  /\ StoreStart /\ NoPage
  /\ \E endpoint \in {Absent, "/api/login"}, method \in {Absent, "POST"}, email \in StoredEmails,
        password \in StoredPasswords :
       /\ doc = Document(endpoint, method)
       /\ storage = InitialStorage(email, password)
  /\ booted = FALSE
  /\ atoms = << >>
  /\ elements = [n \in {} |-> 0]
  /\ bonds = << >>
  /\ domListeners = << >>
  /\ winListeners = << >>
  /\ loads = {}
  /\ fetches = << >>
  /\ timers = << >>
  /\ location = ""
  /\ trace = << >>

\* AtomicKernel.boot()
Boot ==
  /\ ~booted
  /\ booted' = TRUE
  /\ LET as == [i \in 1..Len(doc.atoms) |-> ParseAtom(doc.atoms[i], storage)]
         ls == RenderAll(as, 1, << << >>, << >> >>)
         warned(i) == Advisory(as[i])
         idx == [i \in 1..Len(as) |-> i]
         ws == SelectSeq(idx, warned)
     IN /\ atoms' = as
        /\ elements' = Registry(as)
        /\ domListeners' = ls[1]
        /\ winListeners' = ls[2]
        /\ loads' = UNION {{<<a, p>> : p \in {q \in 1..Len(as[a].protons) :
                                                 Truthy(as[a].protons[q].source)}} :
                           a \in 1..Len(as)}
        /\ bonds' = ParseMolecules(doc, 1, 1..Len(as), << >>)
        /\ trace' = [i \in 1..Len(ws) |-> [ev |-> "advisory", atom |-> ws[i]]]
  /\ UNCHANGED <<doc, storage, fetches, timers, location>>
  /\ UNCHANGED <<storeVars, runtimeVars>>

\* the user (or a script) fires an event of some type on an atom's container
DomEvent(a, type) ==
  LET here(l) == l.atom = a /\ l.type = type
      ls == SelectSeq(domListeners, here)
      m == RunHandlers(Machine, ls)
  IN /\ booted
     /\ ls # << >>
     /\ Len(m.fetches) <= MaxFetches
     /\ Len(m.timers) <= MaxTimers
     /\ Becomes(m)
     /\ UNCHANGED <<doc, storage, booted, elements, bonds, domListeners, winListeners, loads>>
     /\ UNCHANGED <<storeVars, runtimeVars>>

\* the fetch of a submit settles and the handler resumes
FetchSettle(i, outcome) ==
  /\ i \in 1..Len(fetches)
  /\ LET req == fetches[i]
         rest == SubSeq(fetches, 1, i - 1) \o SubSeq(fetches, i + 1, Len(fetches))
     IN Becomes(ResumeSubmit([Machine EXCEPT !.fetches = rest], req.atom, req.el, outcome))
  /\ UNCHANGED <<doc, storage, booted, elements, bonds, domListeners, winListeners, loads>>
  /\ UNCHANGED <<storeVars, runtimeVars>>

\* the callback of setTimeout(..., 100): the electron returns to ground
TimerFire ==
  /\ timers # << >>
  /\ LET a == Head(timers)[1]
         e == Head(timers)[2]
     IN /\ atoms' = [atoms EXCEPT ![a].electrons[e].energy = "ground"]
        /\ trace' = << [ev |-> "ground", atom |-> a, el |-> e] >>
  /\ timers' = Tail(timers)
  /\ UNCHANGED <<doc, storage, booted, elements, bonds, domListeners, winListeners, loads,
                 fetches, location>>
  /\ UNCHANGED <<storeVars, runtimeVars>>

\* NucleusManager.loadRemoteData(proton) after its fetch has settled: the body
\* `payload` arrived ("ok") or the fetch or response.json() failed ("fail");
\* `full` is whether localStorage.setItem raises
LoadSettle(a, p, outcome, payload, full) ==
  /\ <<a, p>> \in loads
  /\ loads' = loads \ {<<a, p>>}
  /\ LET proton == atoms[a].protons[p]
         stores == outcome = "ok" /\ proton.persist = "localstorage"
         caught == outcome = "fail" \/ (stores /\ full)
         fetched == IF outcome = "ok" THEN payload ELSE proton.data
         final == IF caught /\ Truthy(proton.fallback) THEN Str(proton.fallback) ELSE fetched
     IN /\ atoms' = [atoms EXCEPT ![a].protons[p].data = final]
        /\ storage' = IF stores /\ ~full
                      THEN Put(storage, Template(proton.local), payload)
                      ELSE storage
        /\ trace' = << [ev |-> "loaded", atom |-> a, proton |-> p, outcome |-> outcome,
                         payload |-> IF outcome = "ok" THEN payload ELSE Null,
                         caught |-> caught] >>
  /\ UNCHANGED <<doc, booted, elements, bonds, domListeners, winListeners, fetches, timers, location>>
  /\ UNCHANGED <<storeVars, runtimeVars>>

ShellNext ==
  \/ Boot
  \/ \E a \in 1..Len(atoms), type \in {"submit", "click"} : DomEvent(a, type)
  \/ \E i \in 1..MaxFetches, outcome \in {"ok", "notok", "reject"} : FetchSettle(i, outcome)
  \/ TimerFire
  \/ \E a \in 1..Len(atoms), p \in 1..2, outcome \in {"ok", "fail"},
        payload \in RemotePayloads, full \in BOOLEAN : LoadSettle(a, p, outcome, payload, full)

ShellSpec == ShellInit /\ [][ShellNext]_vars

\* a pending setTimeout callback is run by the event loop
ShellLiveSpec == ShellSpec /\ WF_vars(TimerFire)

(***************************************************************************)
(* Properties of the action protocol, read off the trace of the last       *)
(* callback                                                                *)
(***************************************************************************)
Events == 1..Len(trace)
IsEvent(i, kind) == trace[i].ev = kind

\* the electron (a, e) as declared in the markup
Declared(a, e) == doc.atoms[a].electrons[e]
DeclaredMethod(a, e) == IF Truthy(Declared(a, e).method) THEN Declared(a, e).method ELSE "GET"

\* index i is the firing of the trigger of a submit-class event with an endpoint
SubmitTrigger(i) ==
  /\ IsEvent(i, "excite")
  /\ SubmitClass(Declared(trace[i].atom, trace[i].el).action)
  /\ Truthy(Declared(trace[i].atom, trace[i].el).endpoint)

\* the network calls the callback issued for the electron (a, e)
CallsOf(a, e) == {j \in Events : IsEvent(j, "fetch") /\ trace[j].atom = a /\ trace[j].el = e}

\* the object mapping each data source's local key to its resolved data
ResolvedData(a) ==
  LET ps == atoms[a].protons
      keyed == {p \in 1..Len(ps) : Truthy(ps[p].local)}
  IN [k \in {ps[p].local : p \in keyed} |->
        ps[CHOOSE p \in keyed : ps[p].local = k /\ \A q \in keyed : ps[q].local = k => q <= p].data]

\* the validate-kind rule sets of atom a
ValidateSets(a) == {n \in 1..Len(atoms[a].neutrons) : atoms[a].neutrons[n].type = "validate"}

\* some field with a required rule is missing or empty in atom a's data
RequiredMissing(a) ==
  \E n \in ValidateSets(a) : \E f \in DOMAIN atoms[a].neutrons[n].rules :
    /\ \E r \in 1..Len(atoms[a].neutrons[n].rules[f]) : atoms[a].neutrons[n].rules[f][r] = RuleRequired
    /\ Falsy(Lookup(ResolvedData(a), f))

\* C3: a submit trigger with an endpoint issues no network call when a
\* required field is missing or empty, and otherwise exactly one, with the
\* declared method and the gathered data as JSON body; the resumed handler
\* issues none.
C3_SubmitSequencing ==
  /\ \A i \in Events : SubmitTrigger(i) =>
       LET a == trace[i].atom
           e == trace[i].el
       IN IF RequiredMissing(a) THEN CallsOf(a, e) = {}
          ELSE /\ Cardinality(CallsOf(a, e)) = 1
               /\ \A j \in CallsOf(a, e) :
                    /\ trace[j].method = DeclaredMethod(a, e)
                    /\ trace[j].endpoint = Declared(a, e).endpoint
                    /\ trace[j].body = TObj(ResolvedData(a))
  /\ (\E i \in Events : IsEvent(i, "response")) => ~\E j \in Events : IsEvent(j, "fetch")

\* C3 witness: a login submit passed validation and sent both fields by POST
C3_Witness ==
  \E j \in Events :
    /\ IsEvent(j, "fetch") /\ trace[j].atom = 1 /\ trace[j].method = "POST"
    /\ trace[j].body = TObj(("email" :> Str("a@b.com")) @@ ("password" :> Str("secret12")))

\* C4: when any rule of a validate-kind rule set fails on the gathered data
\* (required, email-format or minLength), a submit trigger issues no network call.
C4_AnyFailingRuleAborts ==
  \A i \in Events : SubmitTrigger(i) =>
    LET a == trace[i].atom
        failing(n) == LET r == NucleusValidate(ResolvedData(a), atoms[a].neutrons[n])
                      IN ~r.threw /\ ~r.valid
    IN (\E n \in ValidateSets(a) : failing(n)) => CallsOf(a, trace[i].el) = {}

\* C5: every network call of a trigger comes after the completed, successful
\* validation of that trigger, and no call precedes it.
C5_ValidationBeforeCall ==
  \A j \in Events : IsEvent(j, "fetch") =>
    /\ \E i \in 1..(j - 1) :
         /\ IsEvent(i, "validate") /\ trace[i].atom = trace[j].atom /\ trace[i].el = trace[j].el
         /\ trace[i].valid /\ trace[i].errors = {}
    /\ \A i \in 1..(j - 1) : ~IsEvent(i, "fetch") \/ trace[i].el # trace[j].el \/ trace[i].atom # trace[j].atom

\* C5 witness: a trigger validated its data and then issued the call that is now in flight
C5_Witness ==
  /\ fetches # << >>
  /\ \E i \in Events, j \in Events : i < j /\ IsEvent(i, "validate") /\ IsEvent(j, "fetch")

\* C37: the gathering, the validation and the network call of a submit are
\* consecutive steps of one callback, with no load completion, event handler
\* or signal handler between them, and the body sent is the data that was
\* gathered and validated, which is the component's resolved data.
C37_SubmitRunsUninterrupted ==
  \A j \in Events : IsEvent(j, "fetch") =>
    /\ j >= 3
    /\ IsEvent(j - 2, "gather") /\ trace[j - 2].by = "submit"
    /\ IsEvent(j - 1, "validate") /\ trace[j - 1].valid
    /\ \A i \in {j - 2, j - 1} : trace[i].atom = trace[j].atom /\ trace[i].el = trace[j].el
    /\ trace[j].body = TObj([k \in {x \in DOMAIN trace[j - 2].data : trace[j - 2].data[x] # Undef}
                              |-> trace[j - 2].data[k]])
    /\ trace[j - 2].data = ResolvedData(trace[j].atom)

\* C37 witness: a submit sent its body while a remote load of one of the same
\* component's data sources was still pending
C37_Witness ==
  \E j \in Events :
    /\ IsEvent(j, "fetch")
    /\ \E p \in 1..Len(atoms[trace[j].atom].protons) : <<trace[j].atom, p>> \in loads
    /\ trace[j].body # TObj([k \in {} |-> Null])

\* C6: a submit-class event emits its signal only after its network call succeeded.
C6_EmitOnlyOnSuccess ==
  \A i \in Events :
    (IsEvent(i, "emit") /\ SubmitClass(Declared(trace[i].atom, trace[i].el).action))
      => \E j \in 1..(i - 1) :
           /\ IsEvent(j, "response") /\ trace[j].outcome = "ok"
           /\ trace[j].atom = trace[i].atom /\ trace[j].el = trace[i].el

\* the bonded events that declare a listened signal
Bonded ==
  {b \in (1..Len(doc.atoms)) \X (1..3) :
     /\ b[2] <= Len(doc.atoms[b[1]].electrons)
     /\ Truthy(Declared(b[1], b[2]).bond) /\ Truthy(Declared(b[1], b[2]).listen)}

\* the invocations of bonded handler b that emission i caused
InvocationsBy(i, b) ==
  {j \in Events :
     /\ j > i /\ IsEvent(j, "invoke") /\ trace[j].atom = b[1] /\ trace[j].el = b[2]
     /\ \A k \in (i + 1)..(j - 1) : ~IsEvent(k, "emit")}

\* C7: an emission of X invokes every bonded handler listening for X exactly
\* once and no bonded handler listening for another signal.
C7_OneInvocationPerEmission ==
  \A i \in Events : IsEvent(i, "emit") =>
    \A b \in Bonded :
      Cardinality(InvocationsBy(i, b)) = IF Declared(b[1], b[2]).listen = trace[i].signal THEN 1 ELSE 0

\* C7 witness: login emitted X; profile and audit, listening for X, were invoked
C7_Witness ==
  \E i \in Events :
    /\ IsEvent(i, "emit") /\ trace[i].signal = "X" /\ trace[i].atom = 1
    /\ InvocationsBy(i, <<2, 1>>) # {} /\ InvocationsBy(i, <<3, 1>>) # {}
    /\ InvocationsBy(i, <<3, 2>>) = {}

\* C8: a bonded submit-class event that receives its signal executes the
\* submit for the receiving component: with an endpoint and valid data, the
\* receiver's data is sent.
C8_BondedActionRunsOnReceiver ==
  \A i \in Events :
    (/\ IsEvent(i, "invoke")
     /\ SubmitClass(Declared(trace[i].atom, trace[i].el).action)
     /\ Truthy(Declared(trace[i].atom, trace[i].el).endpoint)
     /\ ~RequiredMissing(trace[i].atom))
      => \E j \in Events :
           /\ j > i /\ IsEvent(j, "fetch")
           /\ trace[j].atom = trace[i].atom /\ trace[j].el = trace[i].el
           /\ trace[j].body = TObj(ResolvedData(trace[i].atom))

\* C38: a bonded handler is invoked only by emissions of the component its
\* bond names.
C38_BondedHandlerHearsItsTargetOnly ==
  \A i \in Events :
    IsEvent(i, "invoke")
      => doc.atoms[trace[i].from].name = Declared(trace[i].atom, trace[i].el).bond

(***************************************************************************)
(* Properties of the energy state                                          *)
(***************************************************************************)
MaxBindings == 3
Bindings == (1..MaxBindings) \X (1..MaxBindings)

\* electron.energy of the e-th event binding of atom a, once it is parsed
Parsed(b) == b[1] <= Len(atoms) /\ b[2] <= Len(atoms[b[1]].electrons)
Excited(b) == Parsed(b) /\ atoms[b[1]].electrons[b[2]].energy = "excited"
Ground(b) == Parsed(b) => atoms[b[1]].electrons[b[2]].energy = "ground"

\* C25: the energy of an event binding is ground or excited; it is excited
\* only while a reset of it is pending, so ground before any trigger; the
\* firing of its trigger leaves it excited; and once excited it returns to
\* ground, whatever the action does.
C25_EnergyReturnsToGround ==
  /\ [](\A b \in Bindings : Excited(b) \/ Ground(b))
  /\ [](\A b \in Bindings : Excited(b) => \E t \in 1..Len(timers) : timers[t] = b)
  /\ [](\A i \in Events : IsEvent(i, "excite") => Excited(<<trace[i].atom, trace[i].el>>))
  /\ \A b \in Bindings : Excited(b) ~> Ground(b)

\* a binding is excited while the network call of its submit is still pending
C25_Witness ==
  \E f \in 1..Len(fetches) :
    /\ Excited(<<fetches[f].atom, fetches[f].el>>)
    /\ \E t \in 1..Len(timers) : timers[t] = <<fetches[f].atom, fetches[f].el>>

\* C39: a delayed reset returns a binding to ground only when no reset of a
\* later trigger of that binding is still pending, so a re-triggered binding
\* stays excited until the delay of its latest trigger has elapsed.
C39_LatestTriggerHoldsExcitation ==
  \A i \in Events :
    IsEvent(i, "ground")
      => \A t \in 1..Len(timers) : timers[t] # <<trace[i].atom, trace[i].el>>

(***************************************************************************)
(* Properties of the validate action                                       *)
(***************************************************************************)
\* the callback whose trace this is ran the listeners of validate actions only
ValidateRan ==
  /\ \E i \in Events : IsEvent(i, "excite")
  /\ \A i \in Events :
       IsEvent(i, "excite") => Declared(trace[i].atom, trace[i].el).action = "validate"

\* C26: a validate action issues no network call, navigates nowhere, emits
\* no signal and leaves the data sources, the rules and the store as they
\* were; it reports the validation result.
C26_ValidateHasNoSideEffects ==
  [][ValidateRan' =>
       /\ \A j \in 1..Len(trace') : trace'[j].ev \notin {"fetch", "navigate", "emit", "invoke"}
       /\ \E j \in 1..Len(trace') : trace'[j].ev = "report"
       /\ fetches' = fetches /\ location' = location /\ storage' = storage
       /\ \A a \in 1..Len(atoms) :
            /\ atoms'[a].protons = atoms[a].protons
            /\ atoms'[a].neutrons = atoms[a].neutrons
       /\ data' = data /\ heap' = heap /\ state' = state /\ computed' = computed]_vars

(***************************************************************************)
(* Properties of compute rules                                             *)
(***************************************************************************)
\* the text of a line before and after its first "="
BeforeEquals(line) == SubSeq(line, 1, Min({i \in 1..Len(line) : line[i] = "="}) - 1)
AfterEquals(line) == SubSeq(line, Min({i \in 1..Len(line) : line[i] = "="}) + 1, Len(line))

\* C27: every line `name = expression` of a compute-kind rule body is parsed
\* to an entry from name to the whole trimmed right-hand side, also when the
\* right-hand side contains "=".
C27_ComputeKeepsRightHandSide ==
  booted =>
    \A a \in 1..Len(atoms) : \A n \in 1..Len(atoms[a].neutrons) :
      atoms[a].neutrons[n].type = "compute" =>
        \A l \in 1..Len(doc.atoms[a].neutrons[n].content) :
          LET line == doc.atoms[a].neutrons[n].content[l]
          IN (/\ \E i \in 1..Len(line) : line[i] = "="
              /\ Trim(BeforeEquals(line)) # << >>
              /\ Trim(AfterEquals(line)) # << >>)
               => /\ Spell(Trim(BeforeEquals(line))) \in DOMAIN atoms[a].neutrons[n].rules
                  /\ atoms[a].neutrons[n].rules[Spell(Trim(BeforeEquals(line)))]
                       = Trim(AfterEquals(line))

(***************************************************************************)
(* Properties of bonding                                                   *)
(***************************************************************************)
\* the events of the molecules' components that declare a bond target, as
\* <<molecule, component, event>>
BondingEvents ==
  {t \in (1..Len(doc.molecules)) \X (1..Len(doc.atoms)) \X (1..MaxBindings) :
     /\ \E k \in 1..Len(doc.molecules[t[1]].atoms) : doc.molecules[t[1]].atoms[k] = t[2]
     /\ t[3] <= Len(doc.atoms[t[2]].electrons)
     /\ Truthy(doc.atoms[t[2]].electrons[t[3]].bond)}

\* C28: after boot the bonding manager holds one bond record for each event
\* of a molecule's components that declares a bond target, from the
\* component's name to that target.
C28_BondPerBondingEvent ==
  booted =>
    /\ Len(bonds) = Cardinality(BondingEvents)
    /\ \A t \in BondingEvents :
         \E k \in 1..Len(bonds) :
           /\ bonds[k].from = doc.atoms[t[2]].name
           /\ bonds[k].to = doc.atoms[t[2]].electrons[t[3]].bond

(***************************************************************************)
(* Properties of the signal bus                                            *)
(***************************************************************************)
\* the listeners on window that belong to the event binding (a, e)
Subscriptions(a, e) ==
  {k \in 1..Len(winListeners) : winListeners[k].atom = a /\ winListeners[k].el = e}

\* C32: after boot an event binding has one subscription on the bus when it
\* declares a bond target and a listened signal, and none otherwise.
C32_SubscribedIffBondAndListen ==
  booted =>
    \A a \in 1..Len(atoms) : \A e \in 1..Len(atoms[a].electrons) :
      Cardinality(Subscriptions(a, e)) =
        (IF Truthy(Declared(a, e).bond) /\ Truthy(Declared(a, e).listen) THEN 1 ELSE 0)

(***************************************************************************)
(* Properties of failed submits                                            *)
(***************************************************************************)
\* C33: a submit whose network call is rejected or answered with a non-ok
\* response is logged and not retried; a trigger issues at most one network
\* call; a submit navigates only after an ok response.
C33_FailureLoggedNoRetry ==
  /\ \A i \in Events :
       (IsEvent(i, "response") /\ trace[i].outcome \in {"notok", "reject"})
         => /\ \E j \in Events :
                 /\ j > i /\ IsEvent(j, "error")
                 /\ trace[j].atom = trace[i].atom /\ trace[j].el = trace[i].el
            /\ CallsOf(trace[i].atom, trace[i].el) = {}
            /\ \A j \in Events : ~IsEvent(j, "navigate")
  /\ \A i \in Events :
       IsEvent(i, "excite") => Cardinality(CallsOf(trace[i].atom, trace[i].el)) <= 1
  /\ \A j \in Events :
       IsEvent(j, "navigate") =>
         \/ \E i \in Events : i < j /\ IsEvent(i, "response") /\ trace[i].outcome = "ok"
         \/ \E i \in Events :
              /\ i < j /\ IsEvent(i, "excite")
              /\ Declared(trace[i].atom, trace[i].el).action = "redirect"

(***************************************************************************)
(* Properties of data source resolution                                    *)
(***************************************************************************)
\* the data sources of atom a that name no remote source
LocalOnly(a) == {p \in 1..Len(atoms[a].protons) : ~Truthy(atoms[a].protons[p].source)}

\* C21: a local-only data source holds what localStorage gives for its key as
\* soon as the document is parsed, a remote one is left to a continuation, and
\* the continuation of a remote load leaves the data source's data equal to the
\* fetched payload when the fetch succeeded and to the configured fallback
\* when it failed.
C21_RemoteLoadSettles ==
  /\ booted =>
       \A a \in 1..Len(atoms) :
         /\ \A p \in LocalOnly(a) :
              atoms[a].protons[p].data =
                (IF Truthy(atoms[a].protons[p].local)
                 THEN LoadLocalData(storage, atoms[a].protons[p].local) ELSE Null)
         /\ \A p \in 1..Len(atoms[a].protons) \ LocalOnly(a) :
              (\A j \in Events : ~IsEvent(j, "loaded")) => <<a, p>> \in loads
  /\ \A i \in Events :
       IsEvent(i, "loaded") =>
         LET proton == atoms[trace[i].atom].protons[trace[i].proton]
         IN /\ trace[i].outcome = "ok" => proton.data = trace[i].payload
            /\ (trace[i].outcome = "fail" /\ Truthy(proton.fallback))
                 => proton.data = Str(proton.fallback)

\* C36: once the fetch of a remote load has succeeded, the data source holds
\* the fetched payload, whether the persistence step that follows stored the
\* payload or raised.
C36_FetchedPayloadSurvivesPersistence ==
  \A i \in Events :
    (IsEvent(i, "loaded") /\ trace[i].outcome = "ok")
      => atoms[trace[i].atom].protons[trace[i].proton].data = trace[i].payload

(***************************************************************************)
(* The nucleus on components of every size: parseAtom and the stability    *)
(* policy, and NucleusManager.validate called on parsed rule sets          *)
(***************************************************************************)
MaxSources == 4
MaxRules == 5
MaxEvents == 1

\* the bodies of the <neutron type="validate"> nodes, by position
RuleLines ==
  << << <<"email", ":", " ", "required">> >>,
     << <<"email", ":", " ", "required", ",", " ", "email", "-", "format">> >>,
     << <<"email", ":", " ", "minLength", "(", "3", ")">> >>,
     << <<"email", ":", " ", "required", ",", "minLength", "(", "8", ")">> >> >>
RuleText(i) == RuleLines[((i - 1) % Len(RuleLines)) + 1]

\* an <atom> with np <proton>, nn <neutron> and ne <electron> children
\* the type attribute of a component's first <neutron>; the others are validate
FirstKinds == {"validate", "security"}

SizedAtom(np, nn, ne, kind) ==
  [name |-> "sized",
   protons |-> [i \in 1..np |-> Proton(Absent, "email", Absent, Absent)],
   neutrons |-> [i \in 1..nn |-> Neutron(IF i = 1 THEN kind ELSE "validate", RuleText(i))],
   electrons |-> [i \in 1..ne |->
                    Electron("click", "validate", Absent, Absent, Absent, Absent, Absent, Absent)]]

\* the data objects validate is called with
FieldValues == {Null, Str(""), Str("abc"), Str("a@b.com"), Num(0), Bool(FALSE)}
DataObjects == {[k \in {} |-> Null]} \cup {("email" :> v) : v \in FieldValues}

\* the page as it is loaded, holding one component
NucleusInit ==
  /\ StoreStart /\ NoPage
  /\ \E np \in 0..MaxSources, nn \in 0..MaxRules, ne \in 0..MaxEvents, kind \in FirstKinds :
       doc = [atoms |-> <<SizedAtom(np, nn, ne, kind)>>, molecules |-> << >>]
  /\ storage = InitialStorage("abc", Absent)
  /\ booted = FALSE
  /\ atoms = << >>
  /\ elements = [n \in {} |-> 0]
  /\ bonds = << >>
  /\ domListeners = << >>
  /\ winListeners = << >>
  /\ loads = {}
  /\ fetches = << >>
  /\ timers = << >>
  /\ location = ""
  /\ trace = << >>

\* a validation that removes the fields it rejects from the data object
ValidateFrame_Strips(as, d, errors) ==
  [atoms |-> as, data |-> [k \in DOMAIN d \ errors |-> d[k]]]

\* what validate and validateWithNeutrons leave of the parsed atoms and of the
\* data object they are given: they read neutron.rules and data[field] and
\* assign to a local errors object only
ValidateFrame(as, d, errors) == [atoms |-> as, data |-> d]

\* a script calls atomicKernel.nucleus.validate(d, neutron) on rule set n of atom a
CallValidate(a, n, d) ==
  /\ booted
  /\ a \in 1..Len(atoms) /\ n \in 1..Len(atoms[a].neutrons)
  /\ LET result == NucleusValidate(d, atoms[a].neutrons[n])
         left == ValidateFrame(atoms, d, DOMAIN result.errors)
     IN /\ atoms' = left.atoms
        /\ trace' = << [ev |-> "validated", atom |-> a, neutron |-> n, data |-> d,
                        after |-> left.data, result |-> result] >>
  /\ UNCHANGED <<doc, storage, booted, elements, bonds, domListeners, winListeners,
                 loads, fetches, timers, location>>
  /\ UNCHANGED <<storeVars, runtimeVars>>

\* a script calls atomicKernel.electronCloud.validateWithNeutrons(d, atom) on atom a
CallValidateWithNeutrons(a, d) ==
  /\ booted
  /\ a \in 1..Len(atoms)
  /\ LET result == ValidateWithNeutrons(d, atoms[a])
         left == ValidateFrame(atoms, d, result.errors)
     IN /\ atoms' = left.atoms
        /\ trace' = << [ev |-> "checked", atom |-> a, data |-> d,
                        after |-> left.data, result |-> result] >>
  /\ UNCHANGED <<doc, storage, booted, elements, bonds, domListeners, winListeners,
                 loads, fetches, timers, location>>
  /\ UNCHANGED <<storeVars, runtimeVars>>

NucleusNext ==
  \/ Boot
  \/ \E a \in 1..Len(atoms), n \in 1..MaxRules, d \in DataObjects : CallValidate(a, n, d)
  \/ \E a \in 1..Len(atoms), d \in DataObjects : CallValidateWithNeutrons(a, d)

NucleusSpec == NucleusInit /\ [][NucleusNext]_vars

(***************************************************************************)
(* The periodic table on documents whose components share names            *)
(***************************************************************************)
MaxAtoms == 3
ElementNames == {"card", "form", "list"}

\* the i-th <atom name=...> of a document, told apart from the others by
\* its i data sources
NamedAtom(name, i) ==
  [name |-> name,
   protons |-> [p \in 1..i |-> Proton(Absent, "slot", Absent, Absent)],
   neutrons |-> << >>,
   electrons |-> << >>]

TableInit ==
  /\ StoreStart /\ NoPage
  /\ \E k \in 1..MaxAtoms : \E names \in [1..k -> ElementNames] :
       doc = [atoms |-> [i \in 1..k |-> NamedAtom(names[i], i)], molecules |-> << >>]
  /\ storage = [k \in {} |-> Null]
  /\ booted = FALSE
  /\ atoms = << >>
  /\ elements = [n \in {} |-> 0]
  /\ bonds = << >>
  /\ domListeners = << >>
  /\ winListeners = << >>
  /\ loads = {}
  /\ fetches = << >>
  /\ timers = << >>
  /\ location = ""
  /\ trace = << >>

\* a script calls atomicKernel.periodicTable.register with the a-th atom
RegisterCall(a) ==
  /\ booted
  /\ a \in 1..Len(atoms)
  /\ elements' = Register(elements, atoms[a].name, a)
  /\ trace' = << [ev |-> "registered", atom |-> a, before |-> elements] >>
  /\ UNCHANGED <<doc, storage, booted, atoms, bonds, domListeners, winListeners,
                 loads, fetches, timers, location>>
  /\ UNCHANGED <<storeVars, runtimeVars>>

TableNext ==
  \/ Boot
  \/ \E a \in 1..MaxAtoms : RegisterCall(a)

TableSpec == TableInit /\ [][TableNext]_vars

\* the atoms that carry the name n
Named(n) == {i \in 1..Len(atoms) : atoms[i].name = n}

\* C23: the registry holds one entry per distinct component name; after boot
\* getElement(name) is the last component of that name in document order,
\* and after a further register call it is the component just registered,
\* every other name keeping its entry.
C23_LatestRegistrationWins ==
  booted =>
    /\ DOMAIN elements = {atoms[i].name : i \in 1..Len(atoms)}
    /\ (\A e \in Events : ~IsEvent(e, "registered")) =>
         \A n \in DOMAIN elements :
           /\ GetElement(elements, atoms, n) # Undef
           /\ GetElement(elements, atoms, n) = atoms[CHOOSE i \in Named(n) : \A j \in Named(n) : j <= i]
    /\ \A e \in Events :
         IsEvent(e, "registered") =>
           \A n \in DOMAIN elements :
             GetElement(elements, atoms, n) =
               (IF n = atoms[trace[e].atom].name THEN atoms[trace[e].atom]
                ELSE GetElement(trace[e].before, atoms, n))

\* an earlier component was registered again under a name two components share
C23_Witness ==
  /\ booted
  /\ \E e \in Events :
       /\ IsEvent(e, "registered")
       /\ \E j \in Named(atoms[trace[e].atom].name) : j > trace[e].atom
       /\ elements[atoms[trace[e].atom].name] = trace[e].atom

(***************************************************************************)
(* Properties of parsing                                                   *)
(***************************************************************************)
\* the numbers of data sources and of rules component i declares in the markup
SourceCount(i) == Len(doc.atoms[i].protons)
RuleCount(i) == Len(doc.atoms[i].neutrons)

\* boot was the last callback: the trace holds its advisories
BootJustRan == booted /\ \A j \in Events : IsEvent(j, "advisory")

\* C12: the advisory is emitted for a component exactly when
\* ruleCount/sourceCount < 1.0 and sourceCount > 2.
C12_AdvisoryIffUnstable ==
  BootJustRan =>
    \A i \in 1..Len(doc.atoms) :
      (\E j \in Events : trace[j].atom = i) <=> (RuleCount(i) < SourceCount(i) /\ SourceCount(i) > 2)

\* C13: for a component with sourceCount > 0 the stability is
\* ruleCount/sourceCount and the combined weight sourceCount + ruleCount.
C13_DerivedMetrics ==
  booted =>
    \A i \in 1..Len(atoms) :
      SourceCount(i) > 0 =>
        /\ atoms[i].stability.den # 0
        /\ atoms[i].stability.num * SourceCount(i) = RuleCount(i) * atoms[i].stability.den
        /\ atoms[i].atomicMass = SourceCount(i) + RuleCount(i)

\* C14: every component is parsed to a descriptor, and with sourceCount = 0
\* its stability is exactly 1.0 (no division by zero), whatever the rules.
C14_ParsingIsTotal ==
  booted =>
    /\ Len(atoms) = Len(doc.atoms)
    /\ \A i \in 1..Len(atoms) :
         SourceCount(i) = 0 =>
           atoms[i].stability.den # 0 /\ atoms[i].stability.num = atoms[i].stability.den

\* the rule declarations of component i whose kind is not validate,
\* transform or compute
UnknownKind(i) ==
  {n \in 1..Len(doc.atoms[i].neutrons) :
     doc.atoms[i].neutrons[n].type \notin {"validate", "transform", "compute"}}

\* atom without its rule sets of unknown kind
WithoutUnknown(i) ==
  LET known(n) == n.type \in {"validate", "transform", "compute"}
  IN [atoms[i] EXCEPT !.neutrons = SelectSeq(@, known)]

Validated == trace # << >> /\ IsEvent(1, "validated")

\* the rule set (field -> rules) the recorded call was given
GivenRules == atoms[trace[1].atom].neutrons[trace[1].neutron].rules

Carries(f, rule) == \E i \in 1..Len(GivenRules[f]) : GivenRules[f][i] = rule

\* what the rules other than required demand of a present value
OtherRuleFails(rule, v) ==
  \/ rule = RuleEmailFormat /\ ~IsValidEmail(v)
  \/ \E n \in Digits : rule = RuleMinLength(n) /\ v.tag = "str" /\ Len(Chars(v.s)) < ParseInt(n)

\* C15: with required on field f, data in which f is absent, null or ""
\* is invalid with an error entry for f; any other value gets no required
\* error, and the data is valid when no other rule fails.
C15_RequiredRule ==
  Validated =>
    \A f \in DOMAIN GivenRules :
      Carries(f, RuleRequired) =>
        LET v == Lookup(trace[1].data, f)
            r == trace[1].result
        IN IF v \in {Undef, Null, Str("")}
           THEN ~r.threw /\ ~r.valid /\ f \in DOMAIN r.errors
           ELSE /\ ~r.threw
                /\ (f \in DOMAIN r.errors =>
                      \A i \in 1..Len(r.errors[f]) : r.errors[f][i] # "This field is required")
                /\ ((\A g \in DOMAIN GivenRules : \A i \in 1..Len(GivenRules[g]) :
                        ~OtherRuleFails(GivenRules[g][i], Lookup(trace[1].data, g)))
                      => r.valid)

\* C16: validating data in which a declared field is absent never faults: a
\* result is returned, required reports an error for the field and
\* minLength(N) is skipped.
C16_AbsentFieldNeverFaults ==
  Validated =>
    \A f \in DOMAIN GivenRules :
      f \notin DOMAIN trace[1].data =>
        /\ ~trace[1].result.threw
        /\ (Carries(f, RuleRequired) => f \in DOMAIN trace[1].result.errors)
        /\ (f \in DOMAIN trace[1].result.errors =>
              \A i \in 1..Len(trace[1].result.errors[f]) :
                trace[1].result.errors[f][i] # "Minimum length")

DataNode(name, compute, text) ==
  [name |-> name, compute |-> compute, text |-> text, schema |-> "", persist |-> ""]
StateNode(name, initial) == [name |-> name, initial |-> initial]
\* <h6x-atom type=...>: a card or a stat with inline JSON, a stat with a compute
Card(text) == [type |-> "card", compute |-> << >>, text |-> text]
Stat(compute) == [type |-> "stat", compute |-> compute, text |-> InvalidJSON]
Panel(slot, content) == [slot |-> slot, atoms |-> content]
\* <h6x-app>; layout is the type attribute of its <h6x-layout>, hasLayout
\* whether it has one
App(name, hasLayout, layout, panels) ==
  [name |-> name, hasLayout |-> hasLayout, layout |-> layout, panels |-> panels]

CardTexts == {TObj(("title" :> Str("abc"))), InvalidJSON}
Layouts == {"dashboard", "split", "centered", "grid"}

\* the apps of the documents: one main panel holding a card and a count
Apps(name) ==
  {App(name, FALSE, Absent, << >>)} \cup
  {App(name, TRUE, l, << Panel("main", << Card(t), Stat(CountExpr("users")) >>) >>) :
     l \in Layouts, t \in CardTexts}

Pages ==
  {[dataNodes |-> << DataNode("users", << >>, u), DataNode("tasks", << >>, t),
                     DataNode("activeUsers", FilterExpr("users", "active", "true"), InvalidJSON) >>,
    stateNodes |-> << StateNode("mode", "a") >>,
    apps |-> <<a1, a2>>] :
     u \in {TArr(<<E1, E2, E3>>), InvalidJSON}, t \in {TArr(<< >>), InvalidJSON},
     a1 \in Apps("first"), a2 \in Apps("second")}

\* Store.load for the <h6x-data> nodes in document order; st = [data, computed, heap]
RECURSIVE LoadAll(_, _)
LoadAll(nodes, st) ==
  IF nodes = << >> THEN st
  ELSE LET node == Head(nodes)
           r == RawLoad(st.data, st.heap, schemas, node.name, node.text, node.schema)
       IN LoadAll(Tail(nodes),
            IF node.compute # << >>
            THEN [st EXCEPT !.computed = Put(@, node.name, node.compute)]
            ELSE [st EXCEPT !.data = r.data, !.heap = r.heap])

\* Store.loadState for the <h6x-state> nodes in document order
RECURSIVE LoadStates(_, _)
LoadStates(nodes, st) ==
  IF nodes = << >> THEN st
  ELSE LoadStates(Tail(nodes),
         Put(st, Head(nodes).name,
             IF Truthy(Head(nodes).initial) THEN Str(Head(nodes).initial) ELSE Null))

\* one <h6x-atom> in renderPanel: TRUE when an error is raised (JSON.parse of
\* the inline content, a property read off null, evalComputed)
AtomThrows(atom, st) ==
  IF atom.type = "card" THEN atom.text \in {InvalidJSON, Null}
  ELSE IF atom.type = "stat" THEN
    IF atom.compute # << >> THEN EvalComputed(st.data, st.heap, atom.compute).v = Threw
    ELSE atom.text \in {InvalidJSON, Null}
  ELSE FALSE

\* H6XRuntime.renderPanel(panel, container)
RenderPanelThrows(panel, st) == \E i \in 1..Len(panel.atoms) : AtomThrows(panel.atoms[i], st)

\* the panels mountDashboard, mountSplit and mountCentered hand to renderPanel
RenderedPanels(app) ==
  LET main(pn) == pn.slot = "main"
  IN IF app.layout = "dashboard" THEN SelectSeq(app.panels, main)
     ELSE IF app.layout = "split" THEN app.panels
     ELSE IF app.layout = "centered" THEN SubSeq(app.panels, 1, 1)
     ELSE << >>

\* H6XRuntime.mount(appNode): "nolayout" (logged, return), "threw" (an error
\* leaves mount: this.layout[layoutType] is not a function, or a panel
\* raised), or "mounted" (the app node is replaced by its layout)
Mount(app, st) ==
  IF ~app.hasLayout THEN "nolayout"
  ELSE IF app.layout \notin {"dashboard", "split", "centered"} THEN "threw"
  ELSE IF \E i \in 1..Len(RenderedPanels(app)) : RenderPanelThrows(RenderedPanels(app)[i], st)
       THEN "threw"
  ELSE "mounted"

\* document.querySelectorAll("h6x-app").forEach(app => this.mount(app)): an
\* error that leaves mount leaves forEach and boot, the later apps are not visited
RECURSIVE MountAll(_, _, _)
MountAll(apps, st, acc) ==
  IF apps = << >> THEN acc
  ELSE IF Mount(Head(apps), st) = "threw"
       THEN acc \o <<"threw">> \o [i \in 1..(Len(apps) - 1) |-> "unvisited"]
       ELSE MountAll(Tail(apps), st, Append(acc, Mount(Head(apps), st)))

\* the page as it is loaded
RuntimeInit ==
  /\ NoShell /\ StoreStart
  /\ page \in Pages
  /\ mounts = << >>
  /\ runtime = "loading"

\* H6XRuntime.boot()
RuntimeBoot ==
  /\ runtime = "loading"
  /\ LET st == LoadAll(page.dataNodes, [data |-> data, computed |-> computed, heap |-> heap])
         ms == MountAll(page.apps, st, << >>)
     IN /\ Commit(st.data, st.heap, Undef)
        /\ computed' = st.computed
        /\ state' = LoadStates(page.stateNodes, state)
        /\ mounts' = ms
        /\ runtime' = IF \E i \in 1..Len(ms) : ms[i] = "threw" THEN "threw" ELSE "ready"
  /\ call' = [op |-> "boot"]
  /\ UNCHANGED <<schemas, muts, registered, page, persists>>
  /\ UNCHANGED shellVars

\* after boot a script reads through window.h6x.store
RuntimeNext ==
  \/ RuntimeBoot
  \/ runtime # "loading" /\ \E n \in {"users", "activeUsers"} : Get(n)
  \/ runtime # "loading" /\ GetState("mode")

RuntimeSpec == RuntimeInit /\ [][RuntimeNext]_vars

\* C20: a failure in one component does not stop the boot: every data node
\* with a valid body is loaded, every state node is loaded, and every app
\* that does not itself fail is mounted.
C20_BootIsolatesFailures ==
  runtime # "loading" =>
    /\ \A i \in 1..Len(page.dataNodes) :
         LET node == page.dataNodes[i]
         IN IF node.compute # << >> THEN node.name \in DOMAIN computed
            ELSE node.text # InvalidJSON
                   => node.name \in DOMAIN data /\ Deep(heap, data[node.name]) = node.text
    /\ \A i \in 1..Len(page.stateNodes) : page.stateNodes[i].name \in DOMAIN state
    /\ \A i \in 1..Len(page.apps) :
         Mount(page.apps[i], [data |-> data, computed |-> computed, heap |-> heap]) = "mounted"
           => mounts[i] = "mounted"

====
